---- MODULE Spec2Model ----
(***************************************************************************)
(* Autovoice: the multi-session connection manager (DiscordManager) with   *)
(* its memory monitor, the per-account disconnect of the scheduler, the    *)
(* signal handlers and the bulk connect of the application, as a state     *)
(* machine.                                                                *)
(*                                                                         *)
(* Node.js runs one handler at a time: every action below is one           *)
(* synchronous run of code between two suspension points (await,           *)
(* setTimeout, an event emitted by the client library).                    *)
(*                                                                         *)
(* The client library is the environment.  A destroyed client emits no     *)
(* events and cannot complete a join.  The handlers of "error" (reports    *)
(* only) and "disconnect" (an event name the v13 client never emits) are   *)
(* not actions of the model.  Notifications to the UI are not state.       *)
(*                                                                         *)
(* Fields marked "history" record what happened and are read by no action. *)
(***************************************************************************)
EXTENDS Integers, Sequences, FiniteSets, Bags, TLC

\* ------------------------------------------------------------------ bounds
\* connectAccount calls that may construct a Client (new Client) in one
\* behaviour; a call suspended in the health probe reserves its client
MaxClients == 2
\* reconnect timers (setTimeout bodies not yet finished) at the same time
MaxTimers == 1
\* largest attempt count handed to getReconnectDelay
MaxDelayArg == 17
\* most accounts in the configuration when connectAllAccounts runs
MaxAccounts == 4
\* longest account.token (in characters) handed to the security manager
MaxTokenLen == 11
\* accounts ever added to the configuration
MaxAdded == 3
\* groups ever created
MaxUuids == 3
\* callbacks the scheduled jobs invoke in one run
MaxFired == 3
\* clock steps observed in one run
MaxSteps == 14
\* encryptions applied to one stored token
MaxLayers == 2

\* account.token of the accounts of the configuration
Tokens == {"credA", "credB"}

\* --------------------------------------------------------- program constants
MAX_RECONNECT_ATTEMPTS == 5
RECONNECT_TIMEOUT == 5000
maxDelay == 5 * 60 * 1000

\* statusCode values the status probe may answer; NetErr is req.on("error")
NetErr == 0
ProbeResponses == {200, 429, 503, NetErr}
\* res.statusCode values tried when the probe is examined on its own
StatusCodes == {100, 199, 200, 201, 204, 301, 304, 400, 401, 403, 404, 428,
                429, 430, 500, 502, 503}

\* what the ready handler finds in the client's caches for the account's target
Targets == {"noGuild", "noChannel", "notVoice", "voice"}

\* memory monitor: heapUsedMB = heapUsed / 1024 / 1024
HIGH_MEMORY_THRESHOLD == 500
MB == 1024 * 1024
\* process.memoryUsage().heapUsed (bytes) at a tick of the monitor
HeapSamples == {100 * MB, 350 * MB - 1, 350 * MB, 350 * MB + 1, 490 * MB,
                500 * MB - 1, 500 * MB, 500 * MB + 1, 600 * MB}
\* the samples tried at the ticks that interleave with the manager
TickSamples == {350 * MB - 1, 490 * MB, 500 * MB, 500 * MB + 1}

VARIABLES
    probing,            \* bag: connectAccount calls awaiting checkDiscordAPIStatus
    clients,            \* sequence: every Client constructed, by creation order
    runningClients,     \* DiscordManager.runningClients: sequence of client ids
    connectionAttempts, \* DiscordManager.connectionAttempts: token -> count (0 = absent)
    timers,             \* bag: setTimeout bodies of setupAutoReconnect not yet finished
    thrown,             \* the last disconnectAll ended by an exception leaving it
    apiRefused,         \* token of the last connectAccount that returned null at the
                        \* health gate ("none": none, or a later call passed the gate)
    delayArg,           \* argument handed to getReconnectDelay
    delayRes,           \* its result, -1 before the call
    delayPrev,          \* the previous call of getReconnectDelay: <<arg, result>>
    isLowResourceMode,  \* DiscordManager.isLowResourceMode
    memoryMonitorInterval, \* DiscordManager.memoryMonitorInterval is set (not null)
    isShuttingDown,     \* Application.isShuttingDown
    exited,             \* process.exit was called: no handler runs any more
    heapUsed,           \* memoryUsage.heapUsed (bytes) of the last observed monitor
                        \* tick, -1 before the first
    tickPrev,           \* the tick before: <<its heapUsed, isLowResourceMode before
                        \* the last tick>>
    statusCode,         \* res.statusCode of the last status probe (NetErr: the
                        \* request failed), -1 before its answer
    resolved,           \* what checkDiscordAPIStatus resolved to for it
    probePrev,          \* the probe before: <<statusCode, resolved>>
    bulk,               \* the run of connectAllAccounts: its position in the
                        \* account list, what it reported and what happened
    reported,           \* the clients for which the watcher reported the attempt
                        \* ceiling (observed signals only)
    securityEvents,     \* SecurityManager.securityEvents: its last two events,
                        \* each with the credential it was logged for
    securityOptions,    \* SecurityManager.securityOptions (tokenEncryption)
    trimLog,            \* the clients whose caches the last monitor tick
                        \* cleared, and the parity of the ticks
    config,             \* the configuration file: accounts and groups
    added,              \* how many accounts addAccount has appended so far
    uuids,              \* how many ids uuidv4() has issued so far
    schedules,          \* AccountManager.schedules, keyed by account index
    lastCall,           \* the last scheduleConnect / scheduleDisconnect call:
                        \* its arguments and what it returned
    fired,              \* the callbacks the scheduled jobs have invoked
    now                 \* the clock, in ms relative to today's target time

vars == <<probing, clients, runningClients, connectionAttempts, timers, thrown,
          apiRefused, delayArg, delayRes, delayPrev, isLowResourceMode,
          memoryMonitorInterval, isShuttingDown, exited, heapUsed, tickPrev,
          statusCode, resolved, probePrev, bulk, reported,
          securityEvents, securityOptions, trimLog,
          config, added, uuids, schedules, lastCall, fired, now>>

mgrVars == <<probing, clients, runningClients, connectionAttempts, timers, thrown,
             apiRefused>>
delayVars == <<delayArg, delayRes, delayPrev>>
appVars == <<isLowResourceMode, memoryMonitorInterval, isShuttingDown, exited,
             heapUsed, tickPrev>>
probeVars == <<statusCode, resolved, probePrev>>
auxVars == <<statusCode, resolved, probePrev, bulk, reported>>
\* configuration, scheduler and security state, outside the manager
secVars == <<securityEvents, securityOptions>>
trimVars == <<trimLog>>
acctVars == <<config, added, uuids>>
schedVars == <<schedules, lastCall, fired, now>>
cfgVars == <<securityEvents, securityOptions, trimLog, config, added, uuids, schedules, lastCall,
             fired, now>>
\* everything the manager, the monitor and the application hold
coreVars == <<probing, clients, runningClients, connectionAttempts, timers,
              thrown, apiRefused, delayArg, delayRes, delayPrev,
              isLowResourceMode, memoryMonitorInterval, isShuttingDown, exited,
              heapUsed, tickPrev, statusCode, resolved, probePrev, bulk,
              reported>>

\* ----------------------------------------------------------------- helpers
Min(a, b) == IF a <= b THEN a ELSE b

RECURSIVE Pow2(_)
Pow2(n) == IF n = 0 THEN 1 ELSE 2 * Pow2(n - 1)

RemoveAt(s, i) == SubSeq(s, 1, i - 1) \o SubSeq(s, i + 1, Len(s))

ClientIds == DOMAIN clients

\* runningClients.find(rc => rc.account.token === token): first index, 0 if none
FindIndex(tok) ==
    IF \E i \in DOMAIN runningClients : clients[runningClients[i]].token = tok
    THEN CHOOSE i \in DOMAIN runningClients :
            /\ clients[runningClients[i]].token = tok
            /\ \A j \in 1..(i - 1) : clients[runningClients[j]].token # tok
    ELSE 0

Registered(c) == \E i \in DOMAIN runningClients : runningClients[i] = c

\* the voiceStateUpdate listener of setupAutoReconnect is attached
Watched(c) == clients[c].watchers > 0

RECURSIVE CountIn(_, _)
CountIn(S, B) ==
    IF S = {} THEN 0
    ELSE LET t == CHOOSE x \in S : TRUE
         IN CopiesIn(t, B) + CountIn(S \ {t}, B)

\* number of timers of client c in a stage, in bag B
StageCount(c, stage, B) ==
    CountIn({t \in BagToSet(B) : t.client = c /\ t.stage = stage}, B)

One(x) == SetToBag({x})

\* ------------------------------------------------------- gateway health gate
\* as checkDiscordAPIStatus, with 429 (rate limited) taken as unavailable
checkDiscordAPIStatus_okOnly(resp) == resp = 200

\* checkDiscordAPIStatus: 200 and 429 resolve true, anything else false
checkDiscordAPIStatus(resp) == resp = 200 \/ resp = 429

\* ------------------------------------------------------- reconnection policy
\* as getReconnectDelay, without the cap
getReconnectDelay_uncapped(attempts) ==
    RECONNECT_TIMEOUT * Pow2(attempts)

getReconnectDelay(attempts) ==
    LET baseDelay == RECONNECT_TIMEOUT
        delay == baseDelay * Pow2(attempts)
    IN  Min(delay, maxDelay)

\* ------------------------------------------------------------------ accounts
\* the Account of the configuration with the given token: where it joins and
\* the three presence flags
Account(tok) ==
    IF tok = "credA"
    THEN [token |-> tok, guildId |-> "guild1", channelId |-> "voice1",
          selfMute |-> TRUE, selfDeaf |-> FALSE, selfVideo |-> FALSE]
    ELSE [token |-> tok, guildId |-> "guild2", channelId |-> "voice2",
          selfMute |-> FALSE, selfDeaf |-> TRUE, selfVideo |-> TRUE]

\* no joinChannel call made
NoJoin ==
    [guildId |-> "", channelId |-> "",
     selfMute |-> FALSE, selfDeaf |-> FALSE, selfVideo |-> FALSE]

\* the joinChannel call of the ready handler: the guild it looked the channel
\* up in, the channel id and the options object handed over
readyJoinChannel(account) ==
    [guildId |-> account.guildId, channelId |-> account.channelId,
     selfMute |-> account.selfMute,
     selfDeaf |-> account.selfDeaf,
     selfVideo |-> account.selfVideo]

\* as timerJoinChannel, the options object left out (the library's defaults)
timerJoinChannel_defaults(account) ==
    [guildId |-> account.guildId, channelId |-> account.channelId,
     selfMute |-> FALSE, selfDeaf |-> FALSE, selfVideo |-> FALSE]

\* the joinChannel call of the rejoin timer
timerJoinChannel(account) ==
    [guildId |-> account.guildId, channelId |-> account.channelId,
     selfDeaf |-> account.selfDeaf,
     selfMute |-> account.selfMute,
     selfVideo |-> account.selfVideo]

\* voice.connection.disconnect() if connected, then client.destroy()
Teardown(rec, how) ==
    [rec EXCEPT !.torn = IF rec.torn = "live" THEN how ELSE rec.torn,
                !.joined = FALSE,
                !.rejoined = FALSE]

\* ---------------------------------------------------------------- initial
\* new Client(clientOptions) plus the state of the call that owns it:
\*   login   promise of client.login: unstarted, pending, resolved, rejected
\*   ret     what connectAccount returned: pending, client, null
\*   rdy     progress of the "ready" handler
\*   torn    live, or how it was destroyed: manual (disconnect), replaced
\*   joined  client.voice.connection is set
\*   watchers  voiceStateUpdate listeners attached by setupAutoReconnect
\*   swept   optimizeMemoryUsage removed the account's guild and channel from
\*           the client's caches
\*   overtaken  history: a manual disconnect of its credential ran while the
\*              call was suspended
\*   sched   history: rejoin timers scheduled since its last successful join
\*   rejoined  history: its voice connection was set up by a rejoin timer
\*   account   the account parameter captured by its handlers
\*   joinArgs  history: the joinChannel call of its ready handler
NewClient(tok, started, ov) ==
    [ token |-> tok,
      login |-> IF started THEN "pending" ELSE "unstarted",
      ret |-> IF started THEN "pending" ELSE "null",
      rdy |-> "none",
      torn |-> "live",
      joined |-> FALSE,
      watchers |-> 0,
      swept |-> FALSE,
      overtaken |-> ov,
      sched |-> 0,
      rejoined |-> FALSE,
      account |-> Account(tok),
      joinArgs |-> NoJoin ]

MgrInit ==
    /\ probing = EmptyBag
    /\ clients = <<>>
    /\ runningClients = <<>>
    /\ connectionAttempts = [t \in Tokens |-> 0]
    /\ timers = EmptyBag
    /\ thrown = FALSE
    /\ apiRefused = "none"
    /\ isLowResourceMode = FALSE
    /\ memoryMonitorInterval = TRUE
    /\ isShuttingDown = FALSE
    /\ exited = FALSE
    /\ heapUsed = -1
    /\ tickPrev = <<-1, FALSE>>

\* the configuration, the scheduler and the security log at start
\* The clock of one scheduled day (Date.getDay() = Today), in ms since
\* midnight, observed every ClockStep from 07:28:15 on.
Today == 3
ClockStart == 26895000
ClockStep == 15000

\* no schedule call made yet
NoCall == [n |-> 0, op |-> "none", accountIndex |-> 0, time |-> <<>>,
           daysOfWeek |-> {}, ret |-> FALSE]

CfgInit ==
    /\ securityEvents = <<>>
    /\ securityOptions = [tokenEncryption |-> TRUE]
    /\ trimLog = [tick |-> 0, clients |-> {}]
    /\ config = [accounts |-> <<>>, groups |-> <<>>]
    /\ added = 0
    /\ uuids = 0
    /\ schedules = <<>>
    /\ lastCall = NoCall
    /\ fired = EmptyBag
    /\ now = ClockStart

\* no status probe observed yet
ProbeInit ==
    /\ statusCode = -1
    /\ resolved = FALSE
    /\ probePrev = <<-1, FALSE>>

\* connectAllAccounts not called, over a list of n accounts
BulkIdle(n) ==
    [accounts |-> n, i |-> 0, phase |-> "idle",
     succeed |-> 0, fail |-> 0, returned |-> <<>>]

Init ==
    /\ MgrInit
    /\ delayArg = 0
    /\ delayRes = -1
    /\ delayPrev = <<-1, -1>>
    /\ ProbeInit
    /\ bulk = BulkIdle(0)
    /\ reported = {}
    /\ CfgInit

\* ------------------------------------------------------------ connectAccount
\* A caller (menu, bulk connect, scheduler callback) invokes connectAccount:
\* the call suspends at `await this.checkDiscordAPIStatus()`.
connectAccount_call(tok) ==
    /\ Len(clients) + BagCardinality(probing) < MaxClients
    /\ probing' = probing (+) One([token |-> tok, overtaken |-> FALSE])
    /\ UNCHANGED <<clients, runningClients, connectionAttempts, timers, thrown>>
    /\ UNCHANGED <<apiRefused, delayArg, delayRes, delayPrev>>
    /\ UNCHANGED appVars
    /\ UNCHANGED auxVars
    /\ UNCHANGED cfgVars

\* as connectAccount_resume, with the existing session of the credential left
\* in place (a merge: no teardown, no splice)
connectAccount_resume_merge(call, apiStatus) ==
    /\ BagIn(call, probing)
    /\ probing' = probing (-) One(call)
    /\ IF ~apiStatus
       THEN /\ apiRefused' = call.token
            /\ UNCHANGED <<clients, runningClients, connectionAttempts>>
       ELSE LET tok == call.token
                attempts == connectionAttempts[tok]
            IN  /\ apiRefused' = "none"
                /\ UNCHANGED runningClients
                /\ IF attempts >= MAX_RECONNECT_ATTEMPTS
                   THEN /\ clients' = Append(clients, NewClient(tok, FALSE, call.overtaken))
                        /\ UNCHANGED connectionAttempts
                   ELSE /\ clients' = Append(clients, NewClient(tok, TRUE, call.overtaken))
                        /\ connectionAttempts' =
                             [connectionAttempts EXCEPT ![tok] = attempts + 1]
    /\ UNCHANGED <<timers, thrown>>
    /\ UNCHANGED delayVars
    /\ UNCHANGED appVars
    /\ UNCHANGED auxVars
    /\ UNCHANGED cfgVars

\* as connectAccount_resume, without the check of the attempt ceiling
connectAccount_resume_noCeiling(call, apiStatus) ==
    /\ BagIn(call, probing)
    /\ probing' = probing (-) One(call)
    /\ IF ~apiStatus
       THEN /\ apiRefused' = call.token
            /\ UNCHANGED <<clients, runningClients, connectionAttempts>>
       ELSE LET tok == call.token
                idx == FindIndex(tok)
                old == IF idx = 0 THEN 0 ELSE runningClients[idx]
                \* existing session: voice disconnect, destroy, splice, delete counter
                cl1 == IF idx = 0 THEN clients
                       ELSE [clients EXCEPT ![old] = Teardown(clients[old], "replaced")]
                rc1 == IF idx = 0 THEN runningClients
                       ELSE RemoveAt(runningClients, idx)
                at1 == IF idx = 0 THEN connectionAttempts
                       ELSE [connectionAttempts EXCEPT ![tok] = 0]
                attempts == at1[tok]
            IN  /\ apiRefused' = "none"
                /\ runningClients' = rc1
                /\ clients' = Append(cl1, NewClient(tok, TRUE, call.overtaken))
                /\ connectionAttempts' = [at1 EXCEPT ![tok] = attempts + 1]
    /\ UNCHANGED <<timers, thrown>>
    /\ UNCHANGED delayVars
    /\ UNCHANGED appVars
    /\ UNCHANGED auxVars
    /\ UNCHANGED cfgVars

\* The probe answers (apiStatus) and the call runs on to
\* `await client.login(...)`, or returns null (gateway down, or the attempt
\* ceiling).
connectAccount_resume(call, apiStatus) ==
    /\ BagIn(call, probing)
    /\ probing' = probing (-) One(call)
    /\ IF ~apiStatus
       THEN /\ apiRefused' = call.token
            /\ UNCHANGED <<clients, runningClients, connectionAttempts>>
       ELSE LET tok == call.token
                idx == FindIndex(tok)
                old == IF idx = 0 THEN 0 ELSE runningClients[idx]
                \* existing session: voice disconnect, destroy, splice, delete counter
                cl1 == IF idx = 0 THEN clients
                       ELSE [clients EXCEPT ![old] = Teardown(clients[old], "replaced")]
                rc1 == IF idx = 0 THEN runningClients
                       ELSE RemoveAt(runningClients, idx)
                at1 == IF idx = 0 THEN connectionAttempts
                       ELSE [connectionAttempts EXCEPT ![tok] = 0]
                attempts == at1[tok]
            IN  /\ apiRefused' = "none"
                /\ runningClients' = rc1
                /\ IF attempts >= MAX_RECONNECT_ATTEMPTS
                   THEN /\ clients' = Append(cl1, NewClient(tok, FALSE, call.overtaken))
                        /\ connectionAttempts' = at1
                   ELSE /\ clients' = Append(cl1, NewClient(tok, TRUE, call.overtaken))
                        /\ connectionAttempts' = [at1 EXCEPT ![tok] = attempts + 1]
    /\ UNCHANGED <<timers, thrown>>
    /\ UNCHANGED delayVars
    /\ UNCHANGED appVars
    /\ UNCHANGED auxVars
    /\ UNCHANGED cfgVars

\* as connectAccount_probed, with the result of the probe ignored
connectAccount_probed_ungated(call, resp) ==
    connectAccount_resume(call, TRUE)

connectAccount_probed(call, resp) ==
    connectAccount_resume(call, checkDiscordAPIStatus(resp))

\* The gateway accepts the login: client.login()'s promise is fulfilled.  The
\* continuation of connectAccount and the client's "ready" event follow, in
\* either order.
loginAccepted(c) ==
    /\ c \in ClientIds
    /\ clients[c].login = "pending"
    /\ clients' = [clients EXCEPT ![c].login = "resolved"]
    /\ UNCHANGED <<probing, runningClients, connectionAttempts, timers, thrown>>
    /\ UNCHANGED <<apiRefused, delayArg, delayRes, delayPrev>>
    /\ UNCHANGED appVars
    /\ UNCHANGED auxVars
    /\ UNCHANGED cfgVars

\* connectAccount resumes after a fulfilled login: push and return the client.
\* (recordLoginAttempt writes login telemetry and the security log only.)
connectAccount_loggedIn(c) ==
    /\ c \in ClientIds
    /\ clients[c].login = "resolved"
    /\ clients[c].ret = "pending"
    /\ runningClients' = Append(runningClients, c)
    /\ clients' = [clients EXCEPT ![c].ret = "client"]
    /\ UNCHANGED <<probing, connectionAttempts, timers, thrown>>
    /\ UNCHANGED <<apiRefused, delayArg, delayRes, delayPrev>>
    /\ UNCHANGED appVars
    /\ UNCHANGED auxVars
    /\ UNCHANGED cfgVars

\* as connectAccount_loginFailed, with the push done before the login settled
connectAccount_loginFailed_registered(c) ==
    /\ c \in ClientIds
    /\ clients[c].login = "pending"
    /\ clients' = [clients EXCEPT ![c].login = "rejected", ![c].ret = "null"]
    /\ runningClients' = Append(runningClients, c)
    /\ UNCHANGED <<probing, connectionAttempts, timers, thrown>>
    /\ UNCHANGED <<apiRefused, delayArg, delayRes, delayPrev>>
    /\ UNCHANGED appVars
    /\ UNCHANGED auxVars
    /\ UNCHANGED cfgVars

\* client.login() rejects: the catch block returns null.
connectAccount_loginFailed(c) ==
    /\ c \in ClientIds
    /\ clients[c].login = "pending"
    /\ clients' = [clients EXCEPT ![c].login = "rejected", ![c].ret = "null"]
    /\ UNCHANGED <<probing, runningClients, connectionAttempts, timers, thrown>>
    /\ UNCHANGED <<apiRefused, delayArg, delayRes, delayPrev>>
    /\ UNCHANGED appVars
    /\ UNCHANGED auxVars
    /\ UNCHANGED cfgVars

\* client.on("ready"): resolve guild and channel, start joinChannel.
onReady(c, target) ==
    /\ c \in ClientIds
    /\ clients[c].login = "resolved"
    /\ clients[c].rdy = "none"
    /\ clients[c].torn = "live"
    /\ clients' = [clients EXCEPT
                     ![c].rdy = IF target = "voice" THEN "joining" ELSE target,
                     ![c].joinArgs = IF target = "voice"
                                     THEN readyJoinChannel(clients[c].account)
                                     ELSE @]
    /\ UNCHANGED <<probing, runningClients, connectionAttempts, timers, thrown>>
    /\ UNCHANGED <<apiRefused, delayArg, delayRes, delayPrev>>
    /\ UNCHANGED appVars
    /\ UNCHANGED auxVars
    /\ UNCHANGED cfgVars

\* as onReady_joinSettled, with the counter left as it is
\* as onReady_joinSettled, with connectionAttempts.clear() in place of the
\* delete of the account's own counter
onReady_joinSettled_clearsAll(c, ok) ==
    /\ c \in ClientIds
    /\ clients[c].rdy = "joining"
    /\ ok => clients[c].torn = "live"
    /\ IF ok
       THEN /\ clients' = [clients EXCEPT ![c].rdy = "joined",
                                          ![c].joined = TRUE,
                                          ![c].watchers = @ + 1,
                                          ![c].sched = 0]
            /\ connectionAttempts' = [t \in Tokens |-> 0]
       ELSE /\ clients' = [clients EXCEPT ![c].rdy = "joinFailed"]
            /\ UNCHANGED connectionAttempts
    /\ UNCHANGED <<probing, runningClients, timers, thrown>>
    /\ UNCHANGED <<apiRefused, delayArg, delayRes, delayPrev>>
    /\ UNCHANGED appVars
    /\ UNCHANGED auxVars
    /\ UNCHANGED cfgVars

onReady_joinSettled_keepsCount(c, ok) ==
    /\ c \in ClientIds
    /\ clients[c].rdy = "joining"
    /\ ok => clients[c].torn = "live"
    /\ IF ok
       THEN clients' = [clients EXCEPT ![c].rdy = "joined",
                                       ![c].joined = TRUE,
                                       ![c].watchers = @ + 1,
                                       ![c].sched = 0]
       ELSE clients' = [clients EXCEPT ![c].rdy = "joinFailed"]
    /\ UNCHANGED <<probing, runningClients, connectionAttempts, timers, thrown>>
    /\ UNCHANGED <<apiRefused, delayArg, delayRes, delayPrev>>
    /\ UNCHANGED appVars
    /\ UNCHANGED auxVars
    /\ UNCHANGED cfgVars

\* joinChannel of the ready handler settles: .then attaches the watcher and
\* deletes the counter, .catch only reports.  A destroyed client cannot join.
onReady_joinSettled(c, ok) ==
    /\ c \in ClientIds
    /\ clients[c].rdy = "joining"
    /\ ok => clients[c].torn = "live"
    /\ IF ok
       THEN /\ clients' = [clients EXCEPT ![c].rdy = "joined",
                                          ![c].joined = TRUE,
                                          ![c].watchers = @ + 1,
                                          ![c].sched = 0]
            /\ connectionAttempts' =
                 [connectionAttempts EXCEPT ![clients[c].token] = 0]
       ELSE /\ clients' = [clients EXCEPT ![c].rdy = "joinFailed"]
            /\ UNCHANGED connectionAttempts
    /\ UNCHANGED <<probing, runningClients, timers, thrown>>
    /\ UNCHANGED <<apiRefused, delayArg, delayRes, delayPrev>>
    /\ UNCHANGED appVars
    /\ UNCHANGED auxVars
    /\ UNCHANGED cfgVars

\* -------------------------------------------------------- setupAutoReconnect
\* client.on("voiceStateUpdate"): the listener attached by setupAutoReconnect.
\* own: oldState.member is the client's own user; oldCh / newCh: the states
\* carry a channelId.  The signal is "own user left its channel".
voiceStateUpdate_run(c, own, oldCh, newCh) ==
    /\ c \in ClientIds
    /\ Watched(c)
    /\ clients[c].torn = "live"
    /\ LET tok == clients[c].token
           attempts == connectionAttempts[tok]
       IN  IF own /\ oldCh /\ ~newCh
           THEN IF attempts >= MAX_RECONNECT_ATTEMPTS
                THEN /\ clients' = [clients EXCEPT
                                      ![c].joined = FALSE,
                                      ![c].rejoined = FALSE]
                     /\ UNCHANGED <<connectionAttempts, timers>>
                ELSE /\ BagCardinality(timers) < MaxTimers
                     /\ connectionAttempts' =
                          [connectionAttempts EXCEPT ![tok] = attempts + 1]
                     /\ timers' = timers (+) One([client |-> c,
                                                  n |-> attempts,
                                                  stage |-> "wait",
                                                  delay |-> RECONNECT_TIMEOUT,
                                                  late |-> FALSE,
                                                  args |-> NoJoin])
                     /\ clients' = [clients EXCEPT
                                      ![c].joined = FALSE,
                                      ![c].rejoined = FALSE,
                                      ![c].sched = Min(clients[c].sched + 1,
                                                       MAX_RECONNECT_ATTEMPTS + 1)]
           ELSE UNCHANGED <<clients, connectionAttempts, timers>>
    /\ UNCHANGED <<probing, runningClients, thrown>>
    /\ UNCHANGED <<apiRefused, delayArg, delayRes, delayPrev>>
    /\ UNCHANGED appVars

voiceStateUpdate(c, own, oldCh, newCh) ==
    /\ voiceStateUpdate_run(c, own, oldCh, newCh)
    /\ UNCHANGED auxVars
    /\ UNCHANGED cfgVars

\* the listener run with its report of the ceiling (showError, l.494-499)
\* observed
voiceStateUpdate_observed(c, own, oldCh, newCh) ==
    /\ voiceStateUpdate_run(c, own, oldCh, newCh)
    /\ reported' =
          IF /\ own /\ oldCh /\ ~newCh
             /\ connectionAttempts[clients[c].token] >= MAX_RECONNECT_ATTEMPTS
          THEN reported \cup {c}
          ELSE reported
    /\ UNCHANGED <<statusCode, resolved, probePrev, bulk>>
    /\ UNCHANGED cfgVars

\* The setTimeout delay elapses: the callback starts and suspends at
\* `await this.checkDiscordAPIStatus()`.  (late is history only: the session
\* was manually disconnected while this timer was waiting.)
reconnect_timerFired(t) ==
    /\ BagIn(t, timers)
    /\ t.stage = "wait"
    /\ timers' = (timers (-) One(t))
                   (+) One([t EXCEPT !.stage = "probe",
                                     !.late = (clients[t.client].torn = "manual")])
    /\ UNCHANGED <<probing, clients, runningClients, connectionAttempts, thrown>>
    /\ UNCHANGED <<apiRefused, delayArg, delayRes, delayPrev>>
    /\ UNCHANGED appVars
    /\ UNCHANGED auxVars
    /\ UNCHANGED cfgVars

\* The probe answers.  Unhealthy: report and return.  Healthy: look the target
\* up in the caches (guild && channel && channel instanceof VoiceChannel) and
\* call joinChannel, or fall out of the if with nothing done.  resolvable: the
\* account's guild and voice channel still exist; they are found unless
\* optimizeMemoryUsage swept them from the caches.
\* as reconnect_probed, the answer of the status probe ignored
reconnect_probed_ungated(t, resp, resolvable) ==
    /\ BagIn(t, timers)
    /\ t.stage = "probe"
    /\ IF resolvable /\ ~clients[t.client].swept
       THEN timers' = (timers (-) One(t))
                        (+) One([t EXCEPT
                                   !.stage = "join",
                                   !.args = timerJoinChannel(clients[t.client].account)])
       ELSE timers' = timers (-) One(t)
    /\ UNCHANGED <<probing, clients, runningClients, connectionAttempts, thrown>>
    /\ UNCHANGED <<apiRefused, delayArg, delayRes, delayPrev>>
    /\ UNCHANGED appVars
    /\ UNCHANGED auxVars
    /\ UNCHANGED cfgVars

reconnect_probed(t, resp, resolvable) ==
    /\ BagIn(t, timers)
    /\ t.stage = "probe"
    /\ IF checkDiscordAPIStatus(resp) /\ resolvable /\ ~clients[t.client].swept
       THEN timers' = (timers (-) One(t))
                        (+) One([t EXCEPT
                                   !.stage = "join",
                                   !.args = timerJoinChannel(clients[t.client].account)])
       ELSE timers' = timers (-) One(t)
    /\ UNCHANGED <<probing, clients, runningClients, connectionAttempts, thrown>>
    /\ UNCHANGED <<apiRefused, delayArg, delayRes, delayPrev>>
    /\ UNCHANGED appVars
    /\ UNCHANGED auxVars
    /\ UNCHANGED cfgVars

\* joinChannel of the timer body settles: success sets the counter to 0,
\* failure is caught and reported.  A destroyed client cannot join.
reconnect_joinSettled(t, ok) ==
    /\ BagIn(t, timers)
    /\ t.stage = "join"
    /\ ok => clients[t.client].torn = "live"
    /\ timers' = timers (-) One(t)
    /\ IF ok
       THEN /\ clients' = [clients EXCEPT ![t.client].joined = TRUE,
                                          ![t.client].rejoined = TRUE,
                                          ![t.client].sched = 0]
            /\ connectionAttempts' =
                 [connectionAttempts EXCEPT ![clients[t.client].token] = 0]
       ELSE UNCHANGED <<clients, connectionAttempts>>
    /\ UNCHANGED <<probing, runningClients, thrown>>
    /\ UNCHANGED <<apiRefused, delayArg, delayRes, delayPrev>>
    /\ UNCHANGED appVars
    /\ UNCHANGED auxVars
    /\ UNCHANGED cfgVars

\* ---------------------------------------------------------------- disconnect
\* History only: the calls for a token in toks that are suspended now have
\* seen a manual disconnect of their credential.
OvertakeClients(cl, toks) ==
    [i \in DOMAIN cl |->
        IF cl[i].ret = "pending" /\ cl[i].token \in toks
        THEN [cl[i] EXCEPT !.overtaken = TRUE] ELSE cl[i]]

OvertakeCall(r, toks) ==
    IF r.token \in toks THEN [r EXCEPT !.overtaken = TRUE] ELSE r

OvertakeProbing(toks) ==
    LET S == BagToSet(probing)
        T == {OvertakeCall(r, toks) : r \in S}
    IN  [r \in T |-> CountIn({q \in S : OvertakeCall(q, toks) = r}, probing)]

\* DiscordManager.disconnectAll with every teardown returning normally: what
\* it does to the clients, the registry, the counters and the suspended calls
disconnectAll_run ==
    /\ IF Len(runningClients) = 0
       THEN /\ clients' = OvertakeClients(clients, Tokens)
            /\ UNCHANGED <<runningClients, connectionAttempts>>
       ELSE /\ clients' =
                 OvertakeClients(
                    [i \in DOMAIN clients |->
                        IF Registered(i) THEN Teardown(clients[i], "manual")
                        ELSE clients[i]],
                    Tokens)
            /\ runningClients' = <<>>
            /\ connectionAttempts' = [t \in Tokens |-> 0]
    /\ probing' = OvertakeProbing(Tokens)
    /\ thrown' = FALSE

\* a caller (menu, scheduler) invokes disconnectAll
disconnectAll ==
    /\ disconnectAll_run
    /\ UNCHANGED timers
    /\ UNCHANGED <<apiRefused, delayArg, delayRes, delayPrev>>
    /\ UNCHANGED appVars
    /\ UNCHANGED auxVars
    /\ UNCHANGED cfgVars

\* DiscordManager.disconnectAll when the teardown of the k-th session throws:
\* at voice.connection.disconnect() (atDestroy = FALSE) or at client.destroy().
\* The exception leaves forEach and disconnectAll.
disconnectAll_throws(k, atDestroy) ==
    /\ k \in DOMAIN runningClients
    /\ atDestroy \/ clients[runningClients[k]].joined
    /\ clients' =
         OvertakeClients(
            [i \in DOMAIN clients |->
                IF \E j \in 1..(k - 1) : runningClients[j] = i
                THEN Teardown(clients[i], "manual")
                ELSE IF runningClients[k] = i /\ atDestroy
                     THEN [clients[i] EXCEPT !.joined = FALSE,
                                             !.rejoined = FALSE]
                     ELSE clients[i]],
            Tokens)
    /\ probing' = OvertakeProbing(Tokens)
    /\ thrown' = TRUE
    /\ UNCHANGED <<runningClients, connectionAttempts, timers>>
    /\ UNCHANGED <<apiRefused, delayArg, delayRes, delayPrev>>
    /\ UNCHANGED appVars
    /\ UNCHANGED auxVars
    /\ UNCHANGED cfgVars

\* as disconnectCallback, with splice(index, 1) not guarded by the find:
\* indexOf gives -1 and splice(-1, 1) removes the last entry
disconnectCallback_unguarded(tok) ==
    /\ LET idx == FindIndex(tok)
       IN  IF idx = 0
           THEN /\ clients' = OvertakeClients(clients, {tok})
                /\ runningClients' =
                     SubSeq(runningClients, 1, Len(runningClients) - 1)
           ELSE /\ clients' =
                     OvertakeClients(
                        [clients EXCEPT ![runningClients[idx]] =
                            Teardown(clients[runningClients[idx]], "manual")],
                        {tok})
                /\ runningClients' = RemoveAt(runningClients, idx)
    /\ probing' = OvertakeProbing({tok})
    /\ UNCHANGED <<connectionAttempts, timers, thrown>>
    /\ UNCHANGED <<apiRefused, delayArg, delayRes, delayPrev>>
    /\ UNCHANGED appVars
    /\ UNCHANGED auxVars
    /\ UNCHANGED cfgVars

\* ScheduleModule.activateSchedules, disconnectCallback(account): the
\* per-account disconnect, working on the array getRunningClients() returns.
disconnectCallback(tok) ==
    /\ LET idx == FindIndex(tok)
       IN  IF idx = 0
           THEN /\ clients' = OvertakeClients(clients, {tok})
                /\ UNCHANGED runningClients
           ELSE /\ clients' =
                     OvertakeClients(
                        [clients EXCEPT ![runningClients[idx]] =
                            Teardown(clients[runningClients[idx]], "manual")],
                        {tok})
                /\ runningClients' = RemoveAt(runningClients, idx)
    /\ probing' = OvertakeProbing({tok})
    /\ UNCHANGED <<connectionAttempts, timers, thrown>>
    /\ UNCHANGED <<apiRefused, delayArg, delayRes, delayPrev>>
    /\ UNCHANGED appVars
    /\ UNCHANGED auxVars
    /\ UNCHANGED cfgVars

\* ------------------------------------------------------------ memory monitor
\* optimizeMemoryUsage: for every registered client, users.cache.clear() and
\* sweep of every channel and guild but those of client.voice.connection.
\* Without a voice connection every guild goes, the account's included (the
\* caches are filled when the client becomes ready).
optimizeMemoryUsage ==
    [i \in DOMAIN clients |->
        IF Registered(i) /\ ~clients[i].joined /\ clients[i].rdy # "none"
        THEN [clients[i] EXCEPT !.swept = TRUE]
        ELSE clients[i]]

\* as memoryMonitor_run, entering reduced mode at the threshold itself (>=)
memoryMonitor_run_atThreshold(sample) ==
    /\ memoryMonitorInterval
    /\ IF sample >= HIGH_MEMORY_THRESHOLD * MB /\ ~isLowResourceMode
       THEN /\ isLowResourceMode' = TRUE
            /\ clients' = optimizeMemoryUsage
       ELSE IF sample < ((HIGH_MEMORY_THRESHOLD * 7) \div 10) * MB
               /\ isLowResourceMode
            THEN /\ isLowResourceMode' = FALSE
                 /\ UNCHANGED clients
            ELSE UNCHANGED <<isLowResourceMode, clients>>

\* as memoryMonitor_run, returning to normal below the high threshold itself
memoryMonitor_run_noHysteresis(sample) ==
    /\ memoryMonitorInterval
    /\ IF sample > HIGH_MEMORY_THRESHOLD * MB /\ ~isLowResourceMode
       THEN /\ isLowResourceMode' = TRUE
            /\ clients' = optimizeMemoryUsage
       ELSE IF sample < HIGH_MEMORY_THRESHOLD * MB /\ isLowResourceMode
            THEN /\ isLowResourceMode' = FALSE
                 /\ UNCHANGED clients
            ELSE UNCHANGED <<isLowResourceMode, clients>>

\* The setInterval callback of startMemoryMonitor, with
\* getMemoryUsage().heapUsed = sample:
\*   heapUsedMB > HIGH_MEMORY_THRESHOLD        <=> sample > 500 * MB
\*   heapUsedMB < HIGH_MEMORY_THRESHOLD * 0.7  <=> sample < 350 * MB
memoryMonitor_run(sample) ==
    /\ memoryMonitorInterval
    /\ IF sample > HIGH_MEMORY_THRESHOLD * MB /\ ~isLowResourceMode
       THEN /\ isLowResourceMode' = TRUE
            /\ clients' = optimizeMemoryUsage
       ELSE IF sample < ((HIGH_MEMORY_THRESHOLD * 7) \div 10) * MB
               /\ isLowResourceMode
            THEN /\ isLowResourceMode' = FALSE
                 /\ UNCHANGED clients
            ELSE UNCHANGED <<isLowResourceMode, clients>>

\* as memoryMonitor_tick, with reduced mode shedding the sessions
memoryMonitor_tick_sheds(sample) ==
    /\ memoryMonitorInterval
    /\ IF sample > HIGH_MEMORY_THRESHOLD * MB /\ ~isLowResourceMode
       THEN /\ isLowResourceMode' = TRUE
            /\ disconnectAll_run
       ELSE /\ UNCHANGED <<isLowResourceMode, clients, runningClients>>
            /\ UNCHANGED <<connectionAttempts, probing, thrown>>
    /\ UNCHANGED <<timers, apiRefused>>
    /\ UNCHANGED delayVars
    /\ UNCHANGED <<memoryMonitorInterval, isShuttingDown, exited, heapUsed, tickPrev>>
    /\ UNCHANGED auxVars
    /\ UNCHANGED cfgVars

\* a tick of the monitor while the manager runs
memoryMonitor_tick(sample) ==
    /\ memoryMonitor_run(sample)
    /\ UNCHANGED <<probing, runningClients, connectionAttempts, timers, thrown>>
    /\ UNCHANGED apiRefused
    /\ UNCHANGED delayVars
    /\ UNCHANGED <<memoryMonitorInterval, isShuttingDown, exited, heapUsed, tickPrev>>
    /\ UNCHANGED auxVars
    /\ UNCHANGED cfgVars

\* a tick of the monitor, its sample and the mode it found recorded
memoryMonitor_observed(sample) ==
    /\ memoryMonitor_run(sample)
    /\ heapUsed' = sample
    /\ tickPrev' = <<heapUsed, isLowResourceMode>>
    /\ UNCHANGED <<probing, runningClients, connectionAttempts, timers, thrown>>
    /\ UNCHANGED apiRefused
    /\ UNCHANGED delayVars
    /\ UNCHANGED <<memoryMonitorInterval, isShuttingDown, exited>>
    /\ UNCHANGED auxVars
    /\ UNCHANGED cfgVars

\* as memoryMonitor_trimmed, with the caches cleared on every tick that finds
\* or leaves the manager in reduced mode
memoryMonitor_trimmed_everyTick(sample) ==
    /\ memoryMonitor_run(sample)
    /\ trimLog' = [tick |-> 1 - trimLog.tick,
                   clients |-> IF isLowResourceMode'
                               THEN {c \in ClientIds : Registered(c)}
                               ELSE {}]
    /\ UNCHANGED <<probing, runningClients, connectionAttempts, timers, thrown>>
    /\ UNCHANGED apiRefused
    /\ UNCHANGED delayVars
    /\ UNCHANGED <<memoryMonitorInterval, isShuttingDown, exited, heapUsed, tickPrev>>
    /\ UNCHANGED auxVars
    /\ UNCHANGED secVars
    /\ UNCHANGED acctVars
    /\ UNCHANGED schedVars

\* a tick of the monitor, the clients recorded on which the loop of
\* optimizeMemoryUsage called users.cache.clear() and the two sweeps: every
\* entry of runningClients when the tick calls optimizeMemoryUsage, none
\* otherwise
memoryMonitor_trimmed(sample) ==
    /\ memoryMonitor_run(sample)
    /\ trimLog' = [tick |-> 1 - trimLog.tick,
                   clients |-> IF sample > HIGH_MEMORY_THRESHOLD * MB
                                  /\ ~isLowResourceMode
                               THEN {runningClients[k] : k \in DOMAIN runningClients}
                               ELSE {}]
    /\ UNCHANGED <<probing, runningClients, connectionAttempts, timers, thrown>>
    /\ UNCHANGED apiRefused
    /\ UNCHANGED delayVars
    /\ UNCHANGED <<memoryMonitorInterval, isShuttingDown, exited, heapUsed, tickPrev>>
    /\ UNCHANGED auxVars
    /\ UNCHANGED secVars
    /\ UNCHANGED acctVars
    /\ UNCHANGED schedVars

\* ------------------------------------------------------------------ shutdown
\* every registered client torn down, as the forEach of disconnectAll does
TornDownAll ==
    OvertakeClients(
        [i \in DOMAIN clients |->
            IF Registered(i) THEN Teardown(clients[i], "manual") ELSE clients[i]],
        Tokens)

\* Application.setupSignalHandlers, the handler of SIGINT / SIGTERM / SIGHUP
\* in client/Application.ts: disconnectAll(), process.exit(0).
shutdownSignal ==
    /\ IF ~isShuttingDown
       THEN /\ isShuttingDown' = TRUE
            /\ disconnectAll_run
            /\ exited' = TRUE
       ELSE /\ UNCHANGED <<isShuttingDown, exited, clients, runningClients>>
            /\ UNCHANGED <<connectionAttempts, probing, thrown>>
    /\ UNCHANGED <<timers, apiRefused>>
    /\ UNCHANGED delayVars
    /\ UNCHANGED <<isLowResourceMode, memoryMonitorInterval, heapUsed, tickPrev>>
    /\ UNCHANGED auxVars
    /\ UNCHANGED cfgVars

\* The handler of the Application built from modules: disconnectAll(),
\* cleanup() (clearInterval of the monitor, disconnectAll() again, which finds
\* the registry empty, connectionAttempts.clear()), process.exit(0).
shutdownSignal_modular ==
    /\ IF ~isShuttingDown
       THEN /\ isShuttingDown' = TRUE
            /\ clients' = TornDownAll
            /\ runningClients' = <<>>
            /\ probing' = OvertakeProbing(Tokens)
            /\ thrown' = FALSE
            /\ memoryMonitorInterval' = FALSE
            /\ connectionAttempts' = [t \in Tokens |-> 0]
            /\ exited' = TRUE
       ELSE /\ UNCHANGED <<isShuttingDown, exited, clients, runningClients>>
            /\ UNCHANGED <<connectionAttempts, probing, thrown>>
            /\ UNCHANGED memoryMonitorInterval
    /\ UNCHANGED <<timers, apiRefused>>
    /\ UNCHANGED delayVars
    /\ UNCHANGED <<isLowResourceMode, heapUsed, tickPrev>>
    /\ UNCHANGED auxVars
    /\ UNCHANGED cfgVars

\* ------------------------------------------------------------ specifications
Next ==
    \/ \E tok \in Tokens : connectAccount_call(tok)
    \/ \E call \in BagToSet(probing), resp \in ProbeResponses :
          connectAccount_probed(call, resp)
    \/ \E c \in ClientIds : loginAccepted(c)
    \/ \E c \in ClientIds : connectAccount_loggedIn(c)
    \/ \E c \in ClientIds : connectAccount_loginFailed(c)
    \/ \E c \in ClientIds, target \in Targets : onReady(c, target)
    \/ \E c \in ClientIds, ok \in BOOLEAN : onReady_joinSettled(c, ok)
    \/ \E c \in ClientIds, own \in BOOLEAN, oldCh \in BOOLEAN, newCh \in BOOLEAN :
          voiceStateUpdate(c, own, oldCh, newCh)
    \/ \E t \in BagToSet(timers) : reconnect_timerFired(t)
    \/ \E t \in BagToSet(timers), resp \in ProbeResponses, resolvable \in BOOLEAN :
          reconnect_probed(t, resp, resolvable)
    \/ \E t \in BagToSet(timers), ok \in BOOLEAN : reconnect_joinSettled(t, ok)
    \/ disconnectAll
    \/ \E tok \in Tokens : disconnectCallback(tok)

Spec == Init /\ [][Next]_vars

\* The same program with a client library whose teardown calls may throw.
NextThrow ==
    \/ Next
    \/ \E k \in DOMAIN runningClients, atDestroy \in BOOLEAN :
          disconnectAll_throws(k, atDestroy)

SpecThrow == Init /\ [][NextThrow]_vars

\* The manager with its memory monitor ticking.
NextMem ==
    \/ Next
    \/ \E sample \in TickSamples : memoryMonitor_tick(sample)

SpecMem == Init /\ [][NextMem]_vars

\* The manager under the signal handlers of the application.  After
\* process.exit nothing runs.
NextShutdown ==
    \/ ~exited /\ Next
    \/ ~exited /\ shutdownSignal
    \/ ~exited /\ shutdownSignal_modular

SpecShutdown == Init /\ [][NextShutdown]_vars

\* Sessions being connected, joined and disconnected while the monitor ticks,
\* the trims of each tick recorded.
NextTrim ==
    \/ \E tok \in Tokens : connectAccount_call(tok)
    \/ \E call \in BagToSet(probing) : connectAccount_probed(call, 200)
    \/ \E c \in ClientIds : loginAccepted(c)
    \/ \E c \in ClientIds : connectAccount_loggedIn(c)
    \/ \E c \in ClientIds, target \in Targets : onReady(c, target)
    \/ \E c \in ClientIds, ok \in BOOLEAN : onReady_joinSettled(c, ok)
    \/ \E tok \in Tokens : disconnectCallback(tok)
    \/ \E sample \in TickSamples : memoryMonitor_trimmed(sample)

SpecTrim == Init /\ [][NextTrim]_vars

\* The memory monitor on its own, its ticks observed.
NextMonitor ==
    \E sample \in HeapSamples : memoryMonitor_observed(sample)

SpecMonitor == Init /\ [][NextMonitor]_vars

\* getReconnectDelay on its own: a caller picks an attempt count and calls it.
InitDelay ==
    /\ MgrInit
    /\ delayArg \in 0..MaxDelayArg
    /\ delayRes = -1
    /\ delayPrev = <<-1, -1>>
    /\ ProbeInit
    /\ bulk = BulkIdle(0)
    /\ reported = {}
    /\ CfgInit

delay_call ==
    /\ delayRes = -1
    /\ delayRes' = getReconnectDelay(delayArg)
    /\ UNCHANGED <<delayArg, delayPrev>>
    /\ UNCHANGED mgrVars
    /\ UNCHANGED appVars
    /\ UNCHANGED auxVars
    /\ UNCHANGED cfgVars

delay_next(n) ==
    /\ delayRes # -1
    /\ delayPrev' = <<delayArg, delayRes>>
    /\ delayArg' = n
    /\ delayRes' = -1
    /\ UNCHANGED mgrVars
    /\ UNCHANGED appVars
    /\ UNCHANGED auxVars
    /\ UNCHANGED cfgVars

NextDelay ==
    \/ delay_call
    \/ \E n \in 0..MaxDelayArg : delay_next(n)

SpecDelay == InitDelay /\ [][NextDelay]_vars

\* The manager with the scheduling the code itself guarantees: a continuation
\* whose promise has settled does run (the login continuation of
\* connectAccount).  The answers of the gateway to the status probe and to
\* the login are the environment's; connectAccount sets no timer for either,
\* so nothing obliges them to arrive.
SpecLive ==
    /\ Init
    /\ [][Next]_vars
    /\ WF_vars(\E c \in 1..MaxClients : connectAccount_loggedIn(c))

\* The manager with the ceiling reports of the watchers observed.
NextWatch ==
    \/ \E tok \in Tokens : connectAccount_call(tok)
    \/ \E call \in BagToSet(probing), resp \in ProbeResponses :
          connectAccount_probed(call, resp)
    \/ \E c \in ClientIds : loginAccepted(c)
    \/ \E c \in ClientIds : connectAccount_loggedIn(c)
    \/ \E c \in ClientIds : connectAccount_loginFailed(c)
    \/ \E c \in ClientIds, target \in Targets : onReady(c, target)
    \/ \E c \in ClientIds, ok \in BOOLEAN : onReady_joinSettled(c, ok)
    \/ \E c \in ClientIds, own \in BOOLEAN, oldCh \in BOOLEAN, newCh \in BOOLEAN :
          voiceStateUpdate_observed(c, own, oldCh, newCh)
    \/ \E t \in BagToSet(timers) : reconnect_timerFired(t)
    \/ \E t \in BagToSet(timers), resp \in ProbeResponses, resolvable \in BOOLEAN :
          reconnect_probed(t, resp, resolvable)
    \/ \E t \in BagToSet(timers), ok \in BOOLEAN : reconnect_joinSettled(t, ok)
    \/ disconnectAll
    \/ \E tok \in Tokens : disconnectCallback(tok)

SpecWatch == Init /\ [][NextWatch]_vars

\* ------------------------------------------------------------- status probe
\* checkDiscordAPIStatus on its own: the callback of https.get receives the
\* response and resolves the promise
checkDiscordAPIStatus_response(code) ==
    /\ statusCode' = code
    /\ resolved' = checkDiscordAPIStatus(code)
    /\ probePrev' = <<statusCode, resolved>>
    /\ UNCHANGED <<bulk, reported>>
    /\ UNCHANGED cfgVars
    /\ UNCHANGED mgrVars
    /\ UNCHANGED delayVars
    /\ UNCHANGED appVars

\* req.on("error"): the request failed, the promise resolves false
checkDiscordAPIStatus_error ==
    /\ statusCode' = NetErr
    /\ resolved' = checkDiscordAPIStatus(NetErr)
    /\ probePrev' = <<statusCode, resolved>>
    /\ UNCHANGED <<bulk, reported>>
    /\ UNCHANGED cfgVars
    /\ UNCHANGED mgrVars
    /\ UNCHANGED delayVars
    /\ UNCHANGED appVars

\* ------------------------------------------------------------- bulk connect
\* how a connectAccount call ends for its caller: the Client, null (gate
\* unhealthy, ceiling, login rejected), or an exception leaving it
ConnectOutcomes == {"client", "null", "threw"}

\* the configuration holds 0..MaxAccounts accounts
InitBulk ==
    /\ MgrInit
    /\ delayArg = 0
    /\ delayRes = -1
    /\ delayPrev = <<-1, -1>>
    /\ ProbeInit
    /\ reported = {}
    /\ CfgInit
    /\ bulk \in {BulkIdle(n) : n \in 0..MaxAccounts}

\* connectAllAccounts up to its first await: no accounts, a warning and
\* return; else the spinner of the first account and its connectAccount call
connectAllAccounts_start ==
    /\ bulk.phase = "idle"
    /\ bulk' = IF bulk.accounts = 0
               THEN [bulk EXCEPT !.phase = "done"]
               ELSE [bulk EXCEPT !.phase = "connecting", !.i = 1]
    /\ UNCHANGED <<statusCode, resolved, probePrev, reported>>
    /\ UNCHANGED cfgVars
    /\ UNCHANGED mgrVars
    /\ UNCHANGED delayVars
    /\ UNCHANGED appVars

\* the awaited connectAccount settles: spinner.succeed when it returned
\* (whatever it returned), spinner.fail in the catch; then the 2 s pause
connectAllAccounts_settled(outcome) ==
    /\ bulk.phase = "connecting"
    /\ bulk' = [bulk EXCEPT
                  !.returned = Append(@, outcome),
                  !.succeed = IF outcome = "threw" THEN @ ELSE @ + 1,
                  !.fail = IF outcome = "threw" THEN @ + 1 ELSE @,
                  !.phase = "pacing"]
    /\ UNCHANGED <<statusCode, resolved, probePrev, reported>>
    /\ UNCHANGED cfgVars
    /\ UNCHANGED mgrVars
    /\ UNCHANGED delayVars
    /\ UNCHANGED appVars

\* the pause is over: the next account of the loop, or the closing message
connectAllAccounts_paced ==
    /\ bulk.phase = "pacing"
    /\ bulk' = IF bulk.i < bulk.accounts
               THEN [bulk EXCEPT !.phase = "connecting", !.i = @ + 1]
               ELSE [bulk EXCEPT !.phase = "done"]
    /\ UNCHANGED <<statusCode, resolved, probePrev, reported>>
    /\ UNCHANGED cfgVars
    /\ UNCHANGED mgrVars
    /\ UNCHANGED delayVars
    /\ UNCHANGED appVars

NextBulk ==
    \/ connectAllAccounts_start
    \/ \E outcome \in ConnectOutcomes : connectAllAccounts_settled(outcome)
    \/ connectAllAccounts_paced

SpecBulk == InitBulk /\ [][NextBulk]_vars

\* ------------------------------------------------------------ security log
\* account.token values: strings of 0..MaxTokenLen characters
TokenSamples ==
    {[i \in 1..n |-> "a"] : n \in 0..MaxTokenLen}
       \cup {[i \in 1..n |-> IF i % 2 = 1 THEN "t" ELSE "k"] : n \in 0..MaxTokenLen}

\* SecurityManager.getMaskedToken
getMaskedToken(token) ==
    IF Len(token) <= 10
    THEN token
    ELSE SubSeq(token, 1, 5) \o <<".", ".", ".">>
            \o SubSeq(token, Len(token) - 5 + 1, Len(token))

\* SecurityManager.recordLoginAttempt(account, ip, success) as connectAccount
\* calls it: a failed login is logged as a SUSPICIOUS_LOGIN event, a
\* successful one logs nothing
recordLoginAttempt(token, success) ==
    /\ securityEvents' =
          IF success
          THEN securityEvents
          ELSE LET event == [token |-> token,
                             accountToken |-> getMaskedToken(token)]
               IN  IF Len(securityEvents) < 2
                   THEN Append(securityEvents, event)
                   ELSE <<securityEvents[2], event>>
    /\ UNCHANGED securityOptions
    /\ UNCHANGED coreVars
    /\ UNCHANGED trimVars
    /\ UNCHANGED acctVars
    /\ UNCHANGED schedVars

NextMask ==
    \E token \in TokenSamples, success \in BOOLEAN :
        recordLoginAttempt(token, success)

SpecMask == Init /\ [][NextMask]_vars

\* ------------------------------------------------- accounts and their groups
\* ConfigManager.readConfig parses the file anew on every call and saveConfig
\* writes it whole, so `config` is the file's content.  An account is
\* [name, group]; group NoGroup stands for `undefined`.  Indices are the
\* source's: account index i is config.accounts[i + 1].
NoGroup == 0
GroupIds == 1..MaxUuids
GroupNames == {"work", "play"}
AccountIndices == -1..MaxAdded

\* Array.prototype.splice(index, 1) on a sequence, index counted from 0
Splice(seq, index) ==
    SubSeq(seq, 1, index) \o SubSeq(seq, index + 2, Len(seq))

\* config.groups.findIndex(g => g.id === groupId), -1 if none
GroupIndex(groupId) ==
    IF \E k \in DOMAIN config.groups : config.groups[k].id = groupId
    THEN (CHOOSE k \in DOMAIN config.groups :
             /\ config.groups[k].id = groupId
             /\ \A j \in 1..(k - 1) : config.groups[j].id # groupId) - 1
    ELSE -1

\* A stored token is the credential as typed in, wrapped in the encryptions
\* applied to it since: ivs lists their initialisation vectors, the outermost
\* last.  As a string it is the credential itself when ivs is empty and
\* "<iv hex>:<cipher hex>" otherwise; a credential holds no ':'.
PlainToken(credential) == [plain |-> credential, ivs |-> <<>>]

\* AccountManager.addAccount, with an account that has no group; the token is
\* stored as typed in
addAccount ==
    /\ added < MaxAdded
    /\ config' = [config EXCEPT
                     !.accounts = Append(@, [name |-> added + 1,
                                             group |-> NoGroup,
                                             token |-> PlainToken(added + 1)])]
    /\ added' = added + 1
    /\ UNCHANGED <<uuids, schedules, lastCall, fired, now>>
    /\ UNCHANGED <<coreVars, secVars, trimVars>>

\* AccountManager.addGroup: the id is a fresh uuid
addGroup(name) ==
    /\ uuids < MaxUuids
    /\ config' = [config EXCEPT
                     !.groups = Append(@, [id |-> uuids + 1, name |-> name])]
    /\ uuids' = uuids + 1
    /\ UNCHANGED <<added, schedules, lastCall, fired, now>>
    /\ UNCHANGED <<coreVars, secVars, trimVars>>

\* AccountManager.updateGroup(groupId, groupData): groupData has no id
updateGroup(groupId, name) ==
    /\ LET groupIndex == GroupIndex(groupId)
       IN  IF groupIndex = -1
           THEN UNCHANGED config
           ELSE config' = [config EXCEPT !.groups[groupIndex + 1].name = name]
    /\ UNCHANGED <<added, uuids, schedules, lastCall, fired, now>>
    /\ UNCHANGED <<coreVars, secVars, trimVars>>

\* as deleteGroup, with the accounts' assignments left as they are
deleteGroup_keepsAssignments(groupId) ==
    /\ LET groupIndex == GroupIndex(groupId)
       IN  IF groupIndex = -1
           THEN UNCHANGED config
           ELSE config' = [config EXCEPT !.groups = Splice(@, groupIndex)]
    /\ UNCHANGED <<added, uuids, schedules, lastCall, fired, now>>
    /\ UNCHANGED <<coreVars, secVars, trimVars>>

\* AccountManager.deleteGroup
deleteGroup(groupId) ==
    /\ LET groupIndex == GroupIndex(groupId)
       IN  IF groupIndex = -1
           THEN UNCHANGED config
           ELSE config' =
                  [accounts |->
                      [i \in DOMAIN config.accounts |->
                          IF config.accounts[i].group = groupId
                          THEN [config.accounts[i] EXCEPT !.group = NoGroup]
                          ELSE config.accounts[i]],
                   groups |-> Splice(config.groups, groupIndex)]
    /\ UNCHANGED <<added, uuids, schedules, lastCall, fired, now>>
    /\ UNCHANGED <<coreVars, secVars, trimVars>>

\* AccountManager.assignAccountToGroup; groupId NoGroup is `undefined`
assignAccountToGroup(accountIndex, groupId) ==
    /\ IF accountIndex < 0 \/ accountIndex >= Len(config.accounts)
       THEN UNCHANGED config
       ELSE IF groupId # NoGroup
               /\ ~\E k \in DOMAIN config.groups : config.groups[k].id = groupId
            THEN UNCHANGED config
            ELSE config' = [config EXCEPT !.accounts[accountIndex + 1].group = groupId]
    /\ UNCHANGED <<added, uuids, schedules, lastCall, fired, now>>
    /\ UNCHANGED <<coreVars, secVars, trimVars>>

NextGroups ==
    \/ addAccount
    \/ \E name \in GroupNames : addGroup(name)
    \/ \E groupId \in GroupIds, name \in GroupNames : updateGroup(groupId, name)
    \/ \E groupId \in GroupIds : deleteGroup(groupId)
    \/ \E accountIndex \in AccountIndices, groupId \in {NoGroup} \cup GroupIds :
          assignAccountToGroup(accountIndex, groupId)

SpecGroups == Init /\ [][NextGroups]_vars

\* ------------------------------------------------------------ the scheduler
\* Strings are sequences of characters.
DigitChars == <<"0", "1", "2", "3", "4", "5", "6", "7", "8", "9">>
IsDigit(ch) == \E d \in DOMAIN DigitChars : DigitChars[d] = ch
DigitValue(ch) == (CHOOSE d \in DOMAIN DigitChars : DigitChars[d] = ch) - 1

\* String.prototype.split(':')
RECURSIVE Split(_)
Split(str) ==
    IF \E k \in DOMAIN str : str[k] = ":"
    THEN LET k == CHOOSE j \in DOMAIN str :
                     /\ str[j] = ":"
                     /\ \A i \in 1..(j - 1) : str[i] # ":"
         IN  <<SubSeq(str, 1, k - 1)>> \o Split(SubSeq(str, k + 1, Len(str)))
    ELSE <<str>>

\* the value of a string of decimal digits
RECURSIVE Decimal(_)
Decimal(str) ==
    IF str = <<>>
    THEN 0
    ELSE 10 * Decimal(SubSeq(str, 1, Len(str) - 1)) + DigitValue(str[Len(str)])

\* the longest prefix of decimal digits
RECURSIVE DigitPrefix(_)
DigitPrefix(str) ==
    IF str # <<>> /\ IsDigit(str[1])
    THEN <<str[1]>> \o DigitPrefix(Tail(str))
    ELSE <<>>

\* parseInt(str): an optional sign, then the longest prefix of digits; what
\* follows the digits is ignored.  <<n>> is the number n, <<>> is NaN.
parseInt(str) ==
    LET negative == str # <<>> /\ str[1] = "-"
        digits == DigitPrefix(IF negative THEN Tail(str) ELSE str)
    IN  IF digits = <<>>
        THEN <<>>
        ELSE <<(IF negative THEN -1 ELSE 1) * Decimal(digits)>>

\* Number(str): the whole string has to be a numeral; Number("") is 0.
Number(str) ==
    LET negative == str # <<>> /\ str[1] = "-"
        digits == IF negative THEN Tail(str) ELSE str
    IN  IF \A k \in DOMAIN digits : IsDigit(digits[k])
        THEN IF negative /\ digits = <<>>
             THEN <<>>
             ELSE <<(IF negative THEN -1 ELSE 1) * Decimal(digits)>>
        ELSE <<>>

\* the time strings handed to scheduleConnect / scheduleDisconnect
TimeSamples ==
    { <<"0", "7", ":", "3", "0">>,
      <<"1", "2", "a", ":", "0", "5">>,
      <<"2", "4", ":", "0", "0">>,
      <<"0", "7", ":", "6", "0">>,
      <<"0", "7", "3", "0">>,
      <<"a", "b", ":", "1", "0">> }

\* the daysOfWeek argument; NoDays stands for an omitted argument
NoDays == {-1}
AllDays == 0..6
DaysSamples == {NoDays, {6}}

\* the validation of scheduleConnect / scheduleDisconnect (l.216-227)
ValidTime(time) ==
    LET timeParts == Split(time)
    IN  /\ Len(timeParts) = 2
        /\ LET hour == parseInt(timeParts[1])
               minute == parseInt(timeParts[2])
           IN  /\ hour # <<>>
               /\ minute # <<>>
               /\ ~(hour[1] < 0 \/ hour[1] > 23 \/ minute[1] < 0 \/ minute[1] > 59)

\* a timer handle field: unset, or a handle whose interval is live or was
\* cleared; next is when a live interval runs its callback next
NoJob == [set |-> FALSE, live |-> FALSE, next |-> 0]

\* clearConnectSchedule / clearDisconnectSchedule on the schedules `sched`
clearConnectSchedule(sched, accountIndex) ==
    IF accountIndex \in DOMAIN sched /\ sched[accountIndex].scheduledConnectJob.set
    THEN [sched EXCEPT ![accountIndex].scheduledConnectJob = NoJob]
    ELSE sched

clearDisconnectSchedule(sched, accountIndex) ==
    IF accountIndex \in DOMAIN sched /\ sched[accountIndex].scheduledDisconnectJob.set
    THEN [sched EXCEPT ![accountIndex].scheduledDisconnectJob = NoJob]
    ELSE sched

\* this.schedules.set(accountIndex, scheduleData)
MapSet(sched, accountIndex, scheduleData) ==
    [i \in DOMAIN sched \cup {accountIndex} |->
        IF i = accountIndex THEN scheduleData ELSE sched[i]]

\* this.schedules.delete(accountIndex)
MapDelete(sched, accountIndex) ==
    [i \in DOMAIN sched \ {accountIndex} |-> sched[i]]

\* the record scheduleConnect / scheduleDisconnect creates when the account
\* has none; createdFor is the account at that index at that moment
NewSchedule(accountIndex, daysOfWeek) ==
    [accountIndex |-> accountIndex,
     connectTime |-> <<>>,
     disconnectTime |-> <<>>,
     scheduledConnectJob |-> NoJob,
     scheduledDisconnectJob |-> NoJob,
     daysOfWeek |-> IF daysOfWeek = NoDays THEN AllDays ELSE daysOfWeek,
     createdFor |-> config.accounts[accountIndex + 1].name]

\* AccountManager.removeSchedule
removeSchedule(sched, accountIndex) ==
    MapDelete(clearDisconnectSchedule(clearConnectSchedule(sched, accountIndex),
                                      accountIndex),
              accountIndex)

\* AccountManager.deleteAccount; an index out of range throws before any write
deleteAccount(index) ==
    /\ IF index >= 0 /\ index < Len(config.accounts)
       THEN /\ config' = [config EXCEPT !.accounts = Splice(@, index)]
            /\ schedules' = removeSchedule(schedules, index)
       ELSE UNCHANGED <<config, schedules>>
    /\ UNCHANGED <<added, uuids, lastCall, fired, now>>
    /\ UNCHANGED <<coreVars, secVars, trimVars>>

\* AccountManager.removeSchedule, called on its own
removeSchedule_call(accountIndex) ==
    /\ schedules' = removeSchedule(schedules, accountIndex)
    /\ UNCHANGED <<config, added, uuids, lastCall, fired, now>>
    /\ UNCHANGED <<coreVars, secVars, trimVars>>

\* the body of AccountManager.scheduleConnect, returning ret
scheduleConnect_run(accountIndex, connectTime, daysOfWeek, ret) ==
    LET cleared == clearConnectSchedule(schedules, accountIndex)
    IN  IF accountIndex < 0 \/ accountIndex >= Len(config.accounts)
        THEN /\ UNCHANGED schedules
             /\ ret = FALSE
        ELSE IF ~ValidTime(connectTime)
             THEN /\ schedules' = cleared
                  /\ ret = FALSE
             ELSE LET scheduleData ==
                         IF accountIndex \in DOMAIN cleared
                         THEN cleared[accountIndex]
                         ELSE NewSchedule(accountIndex, daysOfWeek)
                  IN  /\ schedules' =
                            MapSet(cleared, accountIndex,
                                   [scheduleData EXCEPT !.connectTime = connectTime])
                      /\ ret = TRUE

\* the body of AccountManager.scheduleDisconnect, returning ret
scheduleDisconnect_run(accountIndex, disconnectTime, daysOfWeek, ret) ==
    LET cleared == clearDisconnectSchedule(schedules, accountIndex)
    IN  IF accountIndex < 0 \/ accountIndex >= Len(config.accounts)
        THEN /\ UNCHANGED schedules
             /\ ret = FALSE
        ELSE IF ~ValidTime(disconnectTime)
             THEN /\ schedules' = cleared
                  /\ ret = FALSE
             ELSE LET scheduleData ==
                         IF accountIndex \in DOMAIN cleared
                         THEN cleared[accountIndex]
                         ELSE NewSchedule(accountIndex, daysOfWeek)
                  IN  /\ schedules' =
                            MapSet(cleared, accountIndex,
                                   [scheduleData EXCEPT !.disconnectTime = disconnectTime])
                      /\ ret = TRUE

\* AccountManager.scheduleConnect
scheduleConnect(accountIndex, connectTime, daysOfWeek) ==
    /\ \E ret \in BOOLEAN :
          scheduleConnect_run(accountIndex, connectTime, daysOfWeek, ret)
    /\ UNCHANGED <<config, added, uuids, lastCall, fired, now>>
    /\ UNCHANGED <<coreVars, secVars, trimVars>>

\* AccountManager.scheduleDisconnect
scheduleDisconnect(accountIndex, disconnectTime, daysOfWeek) ==
    /\ \E ret \in BOOLEAN :
          scheduleDisconnect_run(accountIndex, disconnectTime, daysOfWeek, ret)
    /\ UNCHANGED <<config, added, uuids, lastCall, fired, now>>
    /\ UNCHANGED <<coreVars, secVars, trimVars>>

\* scheduleConnect, the call and what it returned recorded
scheduleConnect_observed(accountIndex, connectTime, daysOfWeek) ==
    /\ \E ret \in BOOLEAN :
          /\ scheduleConnect_run(accountIndex, connectTime, daysOfWeek, ret)
          /\ lastCall' = [n |-> 1 - lastCall.n, op |-> "scheduleConnect",
                          accountIndex |-> accountIndex, time |-> connectTime,
                          daysOfWeek |-> daysOfWeek, ret |-> ret]
    /\ UNCHANGED <<config, added, uuids, fired, now>>
    /\ UNCHANGED <<coreVars, secVars, trimVars>>

\* scheduleDisconnect, the call and what it returned recorded
scheduleDisconnect_observed(accountIndex, disconnectTime, daysOfWeek) ==
    /\ \E ret \in BOOLEAN :
          /\ scheduleDisconnect_run(accountIndex, disconnectTime, daysOfWeek, ret)
          /\ lastCall' = [n |-> 1 - lastCall.n, op |-> "scheduleDisconnect",
                          accountIndex |-> accountIndex, time |-> disconnectTime,
                          daysOfWeek |-> daysOfWeek, ret |-> ret]
    /\ UNCHANGED <<config, added, uuids, fired, now>>
    /\ UNCHANGED <<coreVars, secVars, trimVars>>

\* checkAndExecute's test: today is a scheduled day and the clock is within a
\* minute of today's target time.  The target is built from
\* time.split(':').map(Number); a NaN part makes it an invalid date, which is
\* within a minute of nothing.
Due(time, daysOfWeek) ==
    LET parts == Split(time)
        hours == Number(parts[1])
        minutes == IF Len(parts) >= 2 THEN Number(parts[2]) ELSE <<>>
    IN  /\ Today \in daysOfWeek
        /\ hours # <<>>
        /\ minutes # <<>>
        /\ LET targetTime == (hours[1] * 60 + minutes[1]) * 60000
               diff == now - targetTime
           IN  (IF diff < 0 THEN -diff ELSE diff) < 60000

\* what one run of checkAndExecute of the job `kind` of schedule accountIndex
\* hands to its callback: getAccount(accountIndex) as it is now, or nothing
\* (not due, or getAccount throws)
Callbacks(accountIndex, kind, time, daysOfWeek) ==
    IF Due(time, daysOfWeek) /\ accountIndex < Len(config.accounts)
    THEN {[kind |-> kind, account |-> config.accounts[accountIndex + 1].name]}
    ELSE {}

\* AccountManager.activateScheduler: clearAllSchedules stops every interval
\* and leaves the handle fields; then every schedule whose index is an
\* account gets its jobs, each with an immediate check
activateScheduler ==
    /\ schedules' =
          [i \in DOMAIN schedules |->
              LET schedule == schedules[i]
                  isAccount == i >= 0 /\ i < Len(config.accounts)
                  job(time, old) ==
                      IF isAccount /\ time # <<>>
                      THEN [set |-> TRUE, live |-> TRUE, next |-> now + 60000]
                      ELSE [old EXCEPT !.live = FALSE]
              IN  [schedule EXCEPT
                      !.scheduledConnectJob =
                          job(schedule.connectTime, schedule.scheduledConnectJob),
                      !.scheduledDisconnectJob =
                          job(schedule.disconnectTime, schedule.scheduledDisconnectJob)]]
    /\ fired' = fired (+) SetToBag(UNION {
          (IF schedules[i].connectTime # <<>>
           THEN Callbacks(i, "connect", schedules[i].connectTime,
                          schedules[i].daysOfWeek)
           ELSE {})
          \cup
          (IF schedules[i].disconnectTime # <<>>
           THEN Callbacks(i, "disconnect", schedules[i].disconnectTime,
                          schedules[i].daysOfWeek)
           ELSE {}) : i \in DOMAIN schedules})
    /\ BagCardinality(fired') <= MaxFired
    /\ UNCHANGED <<config, added, uuids, lastCall, now>>
    /\ UNCHANGED <<coreVars, secVars, trimVars>>

\* the setInterval callback of setupConnectJob, 60000 ms after the previous
\* run.  The time and days it closed over are those of the record: a live
\* connect job is cleared before connectTime is written, and daysOfWeek of a
\* record is never written again.
connectJob_tick(accountIndex) ==
    /\ accountIndex \in DOMAIN schedules
    /\ schedules[accountIndex].scheduledConnectJob.live
    /\ schedules[accountIndex].scheduledConnectJob.next = now
    /\ fired' = fired (+) SetToBag(
          Callbacks(accountIndex, "connect", schedules[accountIndex].connectTime,
                    schedules[accountIndex].daysOfWeek))
    /\ BagCardinality(fired') <= MaxFired
    /\ schedules' = [schedules EXCEPT
                        ![accountIndex].scheduledConnectJob.next = now + 60000]
    /\ UNCHANGED <<config, added, uuids, lastCall, now>>
    /\ UNCHANGED <<coreVars, secVars, trimVars>>

\* the setInterval callback of setupDisconnectJob
disconnectJob_tick(accountIndex) ==
    /\ accountIndex \in DOMAIN schedules
    /\ schedules[accountIndex].scheduledDisconnectJob.live
    /\ schedules[accountIndex].scheduledDisconnectJob.next = now
    /\ fired' = fired (+) SetToBag(
          Callbacks(accountIndex, "disconnect",
                    schedules[accountIndex].disconnectTime,
                    schedules[accountIndex].daysOfWeek))
    /\ BagCardinality(fired') <= MaxFired
    /\ schedules' = [schedules EXCEPT
                        ![accountIndex].scheduledDisconnectJob.next = now + 60000]
    /\ UNCHANGED <<config, added, uuids, lastCall, now>>
    /\ UNCHANGED <<coreVars, secVars, trimVars>>

\* the clock moves on once every interval that is due has run
timePasses ==
    /\ now < ClockStart + MaxSteps * ClockStep
    /\ \A i \in DOMAIN schedules :
          /\ schedules[i].scheduledConnectJob.live
                => schedules[i].scheduledConnectJob.next > now
          /\ schedules[i].scheduledDisconnectJob.live
                => schedules[i].scheduledDisconnectJob.next > now
    /\ now' = now + ClockStep
    /\ UNCHANGED <<config, added, uuids, schedules, lastCall, fired>>
    /\ UNCHANGED <<coreVars, secVars, trimVars>>

\* the well-formed time of the samples, 07:30
HalfPastSeven == <<"0", "7", ":", "3", "0">>

\* Accounts being added, deleted and scheduled at 07:30.
NextSched ==
    \/ addAccount
    \/ \E index \in AccountIndices : deleteAccount(index)
    \/ \E accountIndex \in AccountIndices : removeSchedule_call(accountIndex)
    \/ \E accountIndex \in AccountIndices :
          scheduleConnect(accountIndex, HalfPastSeven, NoDays)
    \/ \E accountIndex \in AccountIndices :
          scheduleDisconnect(accountIndex, HalfPastSeven, NoDays)
    \/ activateScheduler

SpecSched == Init /\ [][NextSched]_vars

\* One account scheduled and rescheduled with every sampled time and days,
\* each call observed.
NextCalls ==
    \/ Len(config.accounts) = 0 /\ addAccount
    \/ \E accountIndex \in -1..1, time \in TimeSamples, daysOfWeek \in DaysSamples :
          scheduleConnect_observed(accountIndex, time, daysOfWeek)
    \/ \E accountIndex \in -1..1, time \in TimeSamples, daysOfWeek \in DaysSamples :
          scheduleDisconnect_observed(accountIndex, time, daysOfWeek)
    \/ activateScheduler

SpecCalls == Init /\ [][NextCalls]_vars

\* activateScheduler has not run since the schedules were made
NotActivated ==
    \A i \in DOMAIN schedules :
        /\ ~schedules[i].scheduledConnectJob.set
        /\ ~schedules[i].scheduledDisconnectJob.set

\* One account scheduled at 07:30 on every day, the scheduler activated once
\* at some moment and the clock running past 07:30.
NextClock ==
    \/ Len(config.accounts) = 0 /\ addAccount
    \/ NotActivated /\ scheduleConnect(0, HalfPastSeven, NoDays)
    \/ NotActivated /\ scheduleDisconnect(0, HalfPastSeven, NoDays)
    \/ NotActivated /\ activateScheduler
    \/ connectJob_tick(0)
    \/ disconnectJob_tick(0)
    \/ timePasses

SpecClock == Init /\ [][NextClock]_vars

\* ----------------------------------------------------------- token storage
\* crypto.randomBytes(16)
IVs == {"iv1", "iv2"}

\* SecurityManager.encryptToken under the security options `options`, with
\* the random vector iv
encryptToken(options, token, iv) ==
    IF ~options.tokenEncryption
    THEN token
    ELSE [token EXCEPT !.ivs = Append(@, iv)]

\* SecurityManager.decryptToken: a string without ':' is returned as it is;
\* otherwise the cipher text is decrypted with the vector in front of the ':'
decryptToken(encryptedToken) ==
    IF ~securityOptions.tokenEncryption \/ encryptedToken.ivs = <<>>
    THEN encryptedToken
    ELSE [encryptedToken EXCEPT !.ivs = SubSeq(@, 1, Len(@) - 1)]

\* SecurityManager.updateSecurityOptions({tokenEncryption}), from the
\* settings menu
updateSecurityOptions(tokenEncryption) ==
    /\ securityOptions' = [securityOptions EXCEPT !.tokenEncryption = tokenEncryption]
    /\ UNCHANGED securityEvents
    /\ UNCHANGED <<coreVars, trimVars, acctVars, schedVars>>

\* SecurityModule.reencryptTokens, the prompt answered `confirm` and iv[i] the
\* random vector of the i-th account's encryption.  Encryption is switched
\* on first.
reencryptTokens(confirm, iv) ==
    /\ IF Len(config.accounts) = 0 \/ ~confirm
       THEN UNCHANGED <<securityOptions, config>>
       ELSE /\ securityOptions' = [securityOptions EXCEPT !.tokenEncryption = TRUE]
            /\ \A i \in DOMAIN config.accounts :
                  Len(config.accounts[i].token.ivs) < MaxLayers
            /\ config' = [config EXCEPT !.accounts =
                  [i \in DOMAIN config.accounts |->
                      LET account == config.accounts[i]
                          encryptedToken ==
                              encryptToken(securityOptions', account.token, iv[i])
                      IN  IF encryptedToken # account.token
                          THEN [account EXCEPT !.token = encryptedToken]
                          ELSE account]]
    /\ UNCHANGED securityEvents
    /\ UNCHANGED <<added, uuids>>
    /\ UNCHANGED <<coreVars, trimVars, schedVars>>

\* Accounts added with their tokens as typed in, the tokens re-encrypted and
\* token encryption switched in the settings.
NextCrypt ==
    \/ addAccount
    \/ \E tokenEncryption \in BOOLEAN : updateSecurityOptions(tokenEncryption)
    \/ \E confirm \in BOOLEAN, iv \in [1..MaxAdded -> IVs] :
          reencryptTokens(confirm, iv)

SpecCrypt == Init /\ [][NextCrypt]_vars

NextProbe ==
    \/ \E code \in StatusCodes : checkDiscordAPIStatus_response(code)
    \/ checkDiscordAPIStatus_error

SpecProbe == Init /\ [][NextProbe]_vars

\* ==================================================================== claims
LiveSession(c) == Registered(c) /\ clients[c].torn = "live"

NoAttempts == [t \in Tokens |-> 0]

\* C1: in every reachable state runningClients holds at most one session per
\* credential (account.token), also when two connectAccount calls for the
\* same credential interleave at their suspension points.
C1_OneSessionPerCredential ==
    \A i, j \in DOMAIN runningClients :
        i # j => clients[runningClients[i]].token # clients[runningClients[j]].token

\* C2: a connect whose login succeeds but whose target is invalid (guild or
\* channel not found, not a voice channel) or whose join fails returns no
\* handle and leaves no entry for it in the registry.
C2_FailedConnectNotRegistered ==
    \A c \in ClientIds :
        clients[c].rdy \in {"noGuild", "noChannel", "notVoice", "joinFailed"}
            => /\ ~Registered(c)
               /\ clients[c].ret # "client"

\* C3: connectAccount resumed with an unhealthy probe returns null and changes
\* nothing: registry, clients (no teardown, no new client, no login started)
\* and attempt counters stay as they were.
C3_UnhealthyGateChangesNothing ==
    [][\A call \in BagToSet(probing), resp \in ProbeResponses :
          (connectAccount_probed(call, resp) /\ ~checkDiscordAPIStatus(resp))
             => /\ UNCHANGED <<clients, runningClients, connectionAttempts, timers>>
                /\ probing' = probing (-) One(call)
                /\ apiRefused' = call.token]_vars

\* C3 witness: a connect of a credential that has a live session and a
\* non-zero counter was refused at the gate; the session is still registered.
C3_Witness ==
    /\ apiRefused \in Tokens
    /\ \E c \in ClientIds :
          /\ clients[c].token = apiRefused
          /\ LiveSession(c)
          /\ clients[c].rdy = "joined"
    /\ connectionAttempts[apiRefused] > 0

\* C4: disconnectAll in which the teardown of one session throws still tears
\* down every other session, empties the registry, clears the counters and
\* does not let the exception leave disconnectAll.
C4_DisconnectAllSurvivesThrow ==
    [][\A k \in DOMAIN runningClients, atDestroy \in BOOLEAN :
          (/\ Len(runningClients) >= 2
           /\ C1_OneSessionPerCredential
           /\ disconnectAll_throws(k, atDestroy))
             => /\ runningClients' = <<>>
                /\ connectionAttempts' = NoAttempts
                /\ ~thrown'
                /\ \A i \in DOMAIN runningClients :
                      i # k => clients'[runningClients[i]].torn = "manual"]_vars

\* C5: a manual disconnect cancels a pending rejoin timer: no timer whose
\* wait ended after the manual disconnect of its session gets to invoke a
\* join, and a manually disconnected session is not joined again.
C5_DisconnectCancelsReconnect ==
    /\ \A t \in BagToSet(timers) : t.late => t.stage # "join"
    /\ \A c \in ClientIds : clients[c].torn = "manual" => ~clients[c].joined

\* C6: a connectAccount call that was suspended (probe or login) while a
\* manual disconnect of its credential ran never registers its client.
C6_DisconnectCancelsConnect ==
    \A c \in ClientIds : clients[c].overtaken => ~Registered(c)

\* C7: between two successful (re)joins of a session at most
\* MAX_RECONNECT_ATTEMPTS rejoin timers are scheduled for it, and a signal
\* received at the ceiling schedules nothing and leaves the counter as it is.
C7_AtMostFiveRejoins ==
    [][/\ \A c \in ClientIds :
             LiveSession(c) => clients'[c].sched <= MAX_RECONNECT_ATTEMPTS
       /\ \A c \in ClientIds :
             (/\ voiceStateUpdate(c, TRUE, TRUE, FALSE)
              /\ connectionAttempts[clients[c].token] >= MAX_RECONNECT_ATTEMPTS)
                => UNCHANGED <<connectionAttempts, timers>>]_vars

\* C8: when the join of a rejoin timer fails for a live session whose counter
\* is below the ceiling, another rejoin timer is scheduled in the same step.
C8_FailedRejoinRetries ==
    [][\A t \in BagToSet(timers) :
          (/\ reconnect_joinSettled(t, FALSE)
           /\ clients[t.client].torn = "live"
           /\ connectionAttempts[clients[t.client].token] < MAX_RECONNECT_ATTEMPTS)
             => StageCount(t.client, "wait", timers')
                   > StageCount(t.client, "wait", timers)]_vars

\* C9: the delay of every scheduled rejoin is getReconnectDelay of the attempt
\* count it was scheduled at.
C9_DelayFollowsPolicy ==
    \A t \in BagToSet(timers) : t.delay = getReconnectDelay(t.n)

\* C10: getReconnectDelay(n) is 5s, 10s, 20s, 40s, 80s, 160s for n = 0..5 and
\* 300s from n = 6 on; it is non-decreasing in n and the same for the same n.
DelayTable == <<5000, 10000, 20000, 40000, 80000, 160000>>

C10_DelaySchedule ==
    delayRes # -1 =>
        /\ delayRes = (IF delayArg <= 5 THEN DelayTable[delayArg + 1] ELSE 300000)
        /\ (delayPrev[1] # -1 /\ delayPrev[1] <= delayArg) => delayPrev[2] <= delayRes
        /\ delayPrev[1] = delayArg => delayPrev[2] = delayRes

\* C10 witness: a capped result after an uncapped one.
C10_Witness ==
    /\ delayArg = 6
    /\ delayRes = 300000
    /\ delayPrev = <<5, 160000>>

\* C11: the only connectAccount call made so far had a healthy gateway, a
\* login that succeeded, a guild and voice channel that exist and a join that
\* succeeded.  Once its login continuation and its ready/join handler have
\* both run it has returned the client, the registry holds exactly that
\* client, the counter of its credential is 0 and one watcher is attached.
C11_SuccessfulConnect ==
    (/\ Len(clients) = 1
     /\ probing = EmptyBag
     /\ timers = EmptyBag
     /\ clients[1].login = "resolved"
     /\ clients[1].ret # "pending"
     /\ clients[1].rdy = "joined"
     /\ clients[1].torn = "live"
     /\ clients[1].joined
     /\ clients[1].sched = 0)
        => /\ clients[1].ret = "client"
           /\ runningClients = <<1>>
           /\ connectionAttempts = NoAttempts
           /\ clients[1].watchers = 1

\* C11 witness: the connected, joined and registered session of the one call.
C11_Witness ==
    /\ Len(clients) = 1
    /\ probing = EmptyBag
    /\ timers = EmptyBag
    /\ clients[1].ret = "client"
    /\ clients[1].rdy = "joined"
    /\ clients[1].joined
    /\ clients[1].torn = "live"
    /\ clients[1].sched = 0
    /\ runningClients = <<1>>

\* C12: the first disconnect signal after a successful connect takes the
\* counter from 0 to 1 and schedules exactly one rejoin with the base delay;
\* when that timer fires (the channel still existing) a join is attempted if
\* and only if the health probe answers healthy.
C12_FirstSignalRejoins ==
    [][/\ \A c \in ClientIds :
             (/\ voiceStateUpdate(c, TRUE, TRUE, FALSE)
              /\ connectionAttempts[clients[c].token] = 0)
                => /\ connectionAttempts'[clients[c].token] = 1
                   /\ timers' = timers (+) One([client |-> c,
                                                n |-> 0,
                                                stage |-> "wait",
                                                delay |-> RECONNECT_TIMEOUT,
                                                late |-> FALSE,
                                                args |-> NoJoin])
       /\ \A t \in BagToSet(timers), resp \in ProbeResponses :
             (/\ reconnect_probed(t, resp, TRUE)
              /\ t.n = 0
              /\ LiveSession(t.client))
                => (checkDiscordAPIStatus(resp)
                      <=> StageCount(t.client, "join", timers')
                            > StageCount(t.client, "join", timers))]_vars

\* C13: the per-account disconnect of a credential with no session in the
\* registry, and disconnectAll on an empty registry, raise nothing and leave
\* the registry, every session, every counter and every timer as they were.
C13_DisconnectAbsentIsNoOp ==
    [][/\ \A tok \in Tokens :
             (disconnectCallback(tok) /\ FindIndex(tok) = 0)
                => /\ UNCHANGED <<runningClients, connectionAttempts, timers, thrown>>
                   /\ \A c \in ClientIds :
                         /\ clients'[c].torn = clients[c].torn
                         /\ clients'[c].joined = clients[c].joined
       /\ (disconnectAll /\ Len(runningClients) = 0)
             => /\ UNCHANGED <<runningClients, connectionAttempts, timers>>
                /\ ~thrown'
                /\ \A c \in ClientIds :
                      /\ clients'[c].torn = clients[c].torn
                      /\ clients'[c].joined = clients[c].joined]_vars

\* C13 witness: a disconnect ran while the call of c was suspended and no
\* session of its credential was registered; the session of the other
\* credential, begun earlier, is still registered, live and joined.
C13_Witness ==
    \E c, d \in ClientIds :
        /\ d < c
        /\ clients[c].overtaken
        /\ clients[c].ret = "pending"
        /\ clients[d].token # clients[c].token
        /\ ~clients[d].overtaken
        /\ LiveSession(d)
        /\ clients[d].joined

\* C14: a manual disconnect clears the counters: after disconnectAll no
\* credential has a non-zero counter, and after the per-account disconnect of
\* a credential its counter is 0.
C14_DisconnectClearsAttempts ==
    [][/\ disconnectAll => connectionAttempts' = NoAttempts
       /\ \A tok \in Tokens :
             disconnectCallback(tok) => connectionAttempts'[tok] = 0]_vars

C16_HighSampleReduces ==
    (/\ heapUsed # -1
     /\ ~tickPrev[2]
     /\ heapUsed >= 500 * MB)
        => isLowResourceMode

\* C16 amended: a monitor tick in normal mode switches to reduced mode if
\* and only if the sampled heap usage is above 500 MB; at exactly 500 MB the
\* mode stays normal.
C16_AboveThresholdReduces ==
    (/\ heapUsed # -1
     /\ ~tickPrev[2])
        => (isLowResourceMode <=> heapUsed > 500 * MB)

\* C16 witness: a tick in normal mode sampled one byte above 500 MB and
\* the mode is reduced.
C16_Witness ==
    /\ heapUsed = 500 * MB + 1
    /\ ~tickPrev[2]
    /\ isLowResourceMode

\* C17: hysteresis.  A tick in reduced mode with a sample of 350 MB or more
\* stays reduced, and leaves reduced mode only with a sample below 350 MB; a
\* tick in normal mode with a sample below 500 MB stays normal; a sample in
\* [350 MB, 500 MB) never changes the mode.
C17_Hysteresis ==
    heapUsed # -1 =>
        /\ (tickPrev[2] /\ heapUsed >= 350 * MB) => isLowResourceMode
        /\ (tickPrev[2] /\ ~isLowResourceMode) => heapUsed < 350 * MB
        /\ (~tickPrev[2] /\ heapUsed < 500 * MB) => ~isLowResourceMode
        /\ (heapUsed >= 350 * MB /\ heapUsed < 500 * MB)
              => isLowResourceMode = tickPrev[2]

\* C17 witness: a tick in reduced mode sampled 490 MB, after a tick sampled
\* in the band too, and the mode is still reduced.
C17_Witness ==
    /\ heapUsed = 490 * MB
    /\ tickPrev[1] = 350 * MB
    /\ tickPrev[2]
    /\ isLowResourceMode

\* C18: when the handler of a shutdown signal has run to process.exit, the
\* registry is empty, every session it held is torn down and the timer of the
\* memory monitor is cleared, whatever reconnect timers were pending.
C18_ShutdownStopsEverything ==
    exited =>
        /\ isShuttingDown
        /\ runningClients = <<>>
        /\ \A c \in ClientIds : clients[c].ret = "client" => clients[c].torn # "live"
        /\ ~memoryMonitorInterval

\* C19: every entry of runningClients is a client whose login was fulfilled.
C19_RegisteredLoggedIn ==
    \A i \in DOMAIN runningClients :
        clients[runningClients[i]].login = "resolved"

\* C19 witness: one client registered, another whose login was rejected.
C19_Witness ==
    \E c, d \in ClientIds :
        /\ Registered(c)
        /\ clients[d].login = "rejected"
        /\ ~Registered(d)

\* C20: a tick of the memory monitor that does anything (it switches the
\* mode; entering reduced mode it sweeps the caches) leaves the registry, the
\* counters, the timers and every client's connection (joined, destroyed,
\* watcher) as they were.  Only the monitor writes isLowResourceMode.
C20_MonitorKeepsSessions ==
    [][isLowResourceMode' # isLowResourceMode
          => /\ \E sample \in TickSamples : memoryMonitor_tick(sample)
             /\ UNCHANGED <<runningClients, connectionAttempts, timers>>
             /\ \A c \in ClientIds :
                   /\ clients'[c].joined = clients[c].joined
                   /\ clients'[c].torn = clients[c].torn
                   /\ clients'[c].watchers = clients[c].watchers]_vars

\* C20 witness: reduced mode was entered with a session registered, whose
\* caches were swept, and it is still registered and live.
C20_Witness ==
    /\ isLowResourceMode
    /\ \E c \in ClientIds : clients[c].swept /\ LiveSession(c)
    /\ \E c \in ClientIds : clients[c].joined /\ LiveSession(c)

\* C21: the health gate resolves healthy exactly when the status probe
\* answered 200 or 429; every other status code and a failed request resolve
\* unhealthy.
C21_HealthyIff200Or429 ==
    statusCode # -1 => (resolved <=> statusCode \in {200, 429})

\* C21 witness: a rate-limited answer (429) resolved healthy right after a
\* failed request that resolved unhealthy.
C21_Witness ==
    /\ statusCode = 429
    /\ resolved
    /\ probePrev = <<NetErr, FALSE>>

\* C23: when the probe of a rejoin timer answers unhealthy for a live session
\* whose counter is below the ceiling, the rejoin is deferred: in the same
\* step another rejoin timer is scheduled for that session.
C23_UnhealthyRejoinDeferred ==
    [][\A t \in BagToSet(timers), resp \in ProbeResponses :
          (/\ t.stage = "probe"
           /\ ~checkDiscordAPIStatus(resp)
           /\ clients[t.client].torn = "live"
           /\ connectionAttempts[clients[t.client].token] < MAX_RECONNECT_ATTEMPTS
           /\ reconnect_probed(t, resp, TRUE))
             => StageCount(t.client, "wait", timers')
                   > StageCount(t.client, "wait", timers)]_vars

\* a login was started in this step: a client was constructed and login called
LoginStarted ==
    /\ Len(clients') > Len(clients)
    /\ clients'[Len(clients')].login = "pending"

\* joins invoked by rejoin timers and not yet settled, in bag B
JoinsInvoked(B) == CountIn({t \in BagToSet(B) : t.stage = "join"}, B)

\* status probes of rejoin timers not yet answered, in bag B
TimerProbes(B) == CountIn({t \in BagToSet(B) : t.stage = "probe"}, B)

\* C26: a login is started only by a connectAccount resumed from its status
\* probe, and never when that probe answered unhealthy; a rejoin timer invokes
\* a join only when resumed from its status probe, and never when that probe
\* answered unhealthy; a status probe is started only by a connectAccount call
\* and by a rejoin timer that fired, not for a session at any other time.
C26_GateBeforeEveryConnect ==
    [][/\ \A call \in BagToSet(probing), resp \in ProbeResponses :
             (/\ ~checkDiscordAPIStatus(resp)
              /\ probing' # probing
              /\ connectAccount_probed(call, resp)) => ~LoginStarted
       /\ \A t \in BagToSet(timers), resp \in ProbeResponses :
             (/\ ~checkDiscordAPIStatus(resp)
              /\ t.stage = "probe"
              /\ timers' # timers
              /\ \E resolvable \in BOOLEAN : reconnect_probed(t, resp, resolvable))
                => JoinsInvoked(timers') <= JoinsInvoked(timers)
       /\ LoginStarted
             => \E call \in BagToSet(probing), resp \in ProbeResponses :
                   connectAccount_probed(call, resp)
       /\ JoinsInvoked(timers') > JoinsInvoked(timers)
             => \E t \in BagToSet(timers), resp \in ProbeResponses :
                   t.stage = "probe" /\ reconnect_probed(t, resp, TRUE)
       /\ BagCardinality(probing') > BagCardinality(probing)
             => \E tok \in Tokens : connectAccount_call(tok)
       /\ TimerProbes(timers') > TimerProbes(timers)
             => \E t \in BagToSet(timers) : reconnect_timerFired(t)]_vars

\* C26 witness: a rejoin timer passed its status probe and has invoked the
\* join, for a session that logged in after its own probe.
C26_Witness ==
    \E t \in BagToSet(timers) :
        /\ t.stage = "join"
        /\ clients[t.client].login = "resolved"
        /\ LiveSession(t.client)

\* the registry entries of credential tok, in registry order
EntriesOf(tok, rc, cl) == SelectSeq(rc, LAMBDA c : cl[c].token = tok)

\* the runtime handle of a client: its login, its connection, its listener
Handle(rec) == <<rec.login, rec.rdy, rec.torn, rec.joined, rec.watchers>>

\* this step changed the counter, a registry entry or a handle of credential tok
SessionChanged(tok) ==
    \/ connectionAttempts'[tok] # connectionAttempts[tok]
    \/ EntriesOf(tok, runningClients', clients')
          # EntriesOf(tok, runningClients, clients)
    \/ \E c \in ClientIds :
          clients[c].token = tok /\ Handle(clients'[c]) # Handle(clients[c])

\* this step is a step of connectAccount, of the watcher or a rejoin timer, or
\* of the per-account disconnect, performed for credential tok
StepFor(tok) ==
    \/ \E call \in BagToSet(probing), resp \in ProbeResponses :
          call.token = tok /\ connectAccount_probed(call, resp)
    \/ \E c \in ClientIds :
          /\ clients[c].token = tok
          /\ \/ loginAccepted(c)
             \/ connectAccount_loggedIn(c)
             \/ connectAccount_loginFailed(c)
             \/ \E target \in Targets : onReady(c, target)
             \/ \E ok \in BOOLEAN : onReady_joinSettled(c, ok)
             \/ \E own \in BOOLEAN, oldCh \in BOOLEAN, newCh \in BOOLEAN :
                   voiceStateUpdate(c, own, oldCh, newCh)
    \/ \E t \in BagToSet(timers) :
          /\ clients[t.client].token = tok
          /\ \/ reconnect_timerFired(t)
             \/ \E resp \in ProbeResponses, resolvable \in BOOLEAN :
                   reconnect_probed(t, resp, resolvable)
             \/ \E ok \in BOOLEAN : reconnect_joinSettled(t, ok)
    \/ disconnectCallback(tok)

\* C25: the attempt counter, the registry entries and the runtime handles of a
\* credential change only in steps performed for that credential (or in
\* disconnectAll): a step of connectAccount, of the watcher, of a rejoin timer
\* or of the per-account disconnect for another credential leaves them as
\* they were.
C25_SessionsIndependent ==
    [][\A tok \in Tokens :
          SessionChanged(tok) => (StepFor(tok) \/ disconnectAll)]_vars

\* C25 witness: the login of one credential was rejected (its counter stays
\* at 1) while the other credential's session is registered, joined and
\* watched with its counter cleared.
C25_Witness ==
    \E c, d \in ClientIds :
        /\ clients[c].token # clients[d].token
        /\ clients[c].login = "rejected"
        /\ connectionAttempts[clients[c].token] = 1
        /\ LiveSession(d)
        /\ clients[d].joined
        /\ Watched(d)
        /\ connectionAttempts[clients[d].token] = 0

\* connectAccount calls for credential tok between their start and their
\* return: suspended in the status probe or in the login
Suspended(tok) ==
    CountIn({call \in BagToSet(probing) : call.token = tok}, probing)
      + Cardinality({c \in ClientIds :
                        clients[c].token = tok /\ clients[c].ret = "pending"})

\* this step wrote the counter or the registry entries of credential tok
Mutated(tok) ==
    \/ connectionAttempts'[tok] # connectionAttempts[tok]
    \/ EntriesOf(tok, runningClients', clients')
          # EntriesOf(tok, runningClients, clients)

\* this step is the resumption of a suspended connectAccount for tok, or the
\* ready handler of the client it is logging in
ResumptionOf(tok) ==
    \/ \E call \in BagToSet(probing), resp \in ProbeResponses :
          call.token = tok /\ connectAccount_probed(call, resp)
    \/ \E c \in ClientIds :
          /\ clients[c].token = tok
          /\ clients[c].ret = "pending"
          /\ \/ connectAccount_loggedIn(c)
             \/ connectAccount_loginFailed(c)
             \/ \E ok \in BOOLEAN : onReady_joinSettled(c, ok)

\* C24: operations on one credential are serialized: while a connectAccount
\* for a credential is suspended, the counter and the registry entries of
\* that credential are written only by that call itself, and no second
\* connectAccount for the credential is in progress.
C24_PerCredentialSerialized ==
    [][\A tok \in Tokens :
          (Suspended(tok) >= 1 /\ Mutated(tok))
             => (Suspended(tok) = 1 /\ ResumptionOf(tok))]_vars

CeilingReported(c) ==
    /\ connectionAttempts[clients[c].token] >= MAX_RECONNECT_ATTEMPTS
    /\ voiceStateUpdate_observed(c, TRUE, TRUE, FALSE)

\* C28: once the ceiling was reported for a session, it is not reported for
\* it again, no rejoin timer of the session fires, probes or joins any more,
\* and its registry entry stays unless a manual disconnect or a new connect
\* of its credential removes it.
C28_AbandonedReportedOnce ==
    [][\A c \in reported :
          /\ ~CeilingReported(c)
          /\ \A t \in BagToSet(timers) :
                t.client = c
                   => /\ ~reconnect_timerFired(t)
                      /\ \A resp \in ProbeResponses, resolvable \in BOOLEAN :
                            ~reconnect_probed(t, resp, resolvable)
                      /\ \A ok \in BOOLEAN : ~reconnect_joinSettled(t, ok)
          /\ (Registered(c) /\ runningClients' # runningClients)
                => \/ \E i \in DOMAIN runningClients' : runningClients'[i] = c
                   \/ disconnectAll
                   \/ disconnectCallback(clients[c].token)
                   \/ \E call \in BagToSet(probing), resp \in ProbeResponses :
                         call.token = clients[c].token
                            /\ connectAccount_probed(call, resp)]_vars

\* C29: a session never has more than one watcher attached, and after a
\* manual disconnect or after the ceiling was reported for it (the watcher
\* then being detached) an involuntary disconnect signal on its client
\* changes no attempt counter and schedules no rejoin.
C29_WatcherDetached ==
    [][/\ \A c \in DOMAIN clients' : clients'[c].watchers <= 1
       /\ \A c \in ClientIds :
             (/\ c \in reported \/ clients[c].torn = "manual"
              /\ \E own \in BOOLEAN, oldCh \in BOOLEAN, newCh \in BOOLEAN :
                    voiceStateUpdate_observed(c, own, oldCh, newCh))
                => UNCHANGED <<connectionAttempts, timers>>]_vars

\* the join the account of credential tok asks for
JoinOf(tok) ==
    [guildId |-> Account(tok).guildId, channelId |-> Account(tok).channelId,
     selfMute |-> Account(tok).selfMute,
     selfDeaf |-> Account(tok).selfDeaf,
     selfVideo |-> Account(tok).selfVideo]

\* C30: the join invoked by the ready handler of a session and the join
\* invoked by each of its rejoin timers name the guild and the channel of the
\* account the session was created for and carry its three presence flags.
C30_JoinsUseAccount ==
    /\ \A c \in ClientIds :
          clients[c].rdy \in {"joining", "joined", "joinFailed"}
             => clients[c].joinArgs = JoinOf(clients[c].token)
    /\ \A t \in BagToSet(timers) :
          t.stage = "join" => t.args = JoinOf(clients[t.client].token)

\* C30 witness: a session whose ready handler joined, now in the join of a
\* rejoin timer, for the account with selfDeaf and selfVideo set.
C30_Witness ==
    \E t \in BagToSet(timers) :
        /\ t.stage = "join"
        /\ clients[t.client].token = "credB"
        /\ clients[t.client].rdy = "joined"
        /\ t.args.selfDeaf /\ t.args.selfVideo /\ ~t.args.selfMute
        /\ t.args.channelId = "voice2"
        /\ clients[t.client].joinArgs = t.args

\* the accounts of the bulk connect whose connectAccount ended as in outs
Ended(outs) ==
    Cardinality({k \in DOMAIN bulk.returned : bulk.returned[k] \in outs})

\* C22: the bulk connect has reported as connected exactly the accounts whose
\* connectAccount returned a client, and as failed exactly those whose
\* connectAccount returned null or threw.
C22_BulkReportsFaithfully ==
    /\ bulk.succeed = Ended({"client"})
    /\ bulk.fail = Ended({"null", "threw"})

\* C34: the attempt counter of every credential stays within
\* 0..MAX_RECONNECT_ATTEMPTS in every interleaving of connectAccount and the
\* watchers, and a connectAccount that passes the gate with the counter of
\* its credential at the ceiling and no session of it registered starts no
\* login, constructs a client it never logs in, and leaves the counter and
\* the registry as they were.
C34_CounterWithinCeiling ==
    [][/\ \A tok \in Tokens :
             /\ connectionAttempts'[tok] >= 0
             /\ connectionAttempts'[tok] <= MAX_RECONNECT_ATTEMPTS
       /\ \A call \in BagToSet(probing) :
             (/\ connectionAttempts[call.token] = MAX_RECONNECT_ATTEMPTS
              /\ FindIndex(call.token) = 0
              /\ probing' # probing
              /\ \E resp \in ProbeResponses : connectAccount_probed(call, resp))
                => /\ ~LoginStarted
                   /\ UNCHANGED <<connectionAttempts, runningClients>>
                   /\ \A c \in DOMAIN clients' \ DOMAIN clients :
                         clients'[c].ret = "null"]_vars

\* C34 witness: a connectAccount returned null at the ceiling: its client was
\* never logged in, the counter of its credential is 5 and no session of the
\* credential is registered.
C34_Witness ==
    \E c \in ClientIds :
        /\ clients[c].login = "unstarted"
        /\ clients[c].ret = "null"
        /\ connectionAttempts[clients[c].token] = MAX_RECONNECT_ATTEMPTS
        /\ FindIndex(clients[c].token) = 0

\* C31: every connectAccount call eventually returns: whenever calls for a
\* credential are suspended in the status probe or in the login, a state
\* follows in which none is, also when the gateway never answers.
C31_EveryConnectReturns ==
    \A tok \in Tokens : (Suspended(tok) > 0) ~> (Suspended(tok) = 0)

\* C33: the accountToken of a security event is never the credential it was
\* logged for, whatever the length of the credential.
C33_NeverLoggedInFull ==
    \A k \in DOMAIN securityEvents :
        securityEvents[k].accountToken # securityEvents[k].token

\* C32: a monitor tick clears caches exactly when it takes the manager from
\* normal to reduced mode, and then on every session registered at that
\* moment; a tick that leaves the mode reduced, returns it to normal or
\* leaves it normal clears none.
C32_TrimExactlyOnEntering ==
    [][trimLog'.tick # trimLog.tick
         => trimLog'.clients =
               IF ~isLowResourceMode /\ isLowResourceMode'
               THEN {c \in ClientIds : Registered(c)}
               ELSE {}]_vars

\* the last tick entered reduced mode and trimmed two registered sessions,
\* one of them joined to its voice channel
C32_Witness ==
    /\ isLowResourceMode
    /\ Cardinality(trimLog.clients) = 2
    /\ \E c \in trimLog.clients : clients[c].joined
    /\ \A c \in trimLog.clients : Registered(c)

\* the ids of the groups of the configuration
ExistingGroups(cfg) == {cfg.groups[k].id : k \in DOMAIN cfg.groups}

C36_ScheduleKeepsItsAccount ==
    \A i \in DOMAIN schedules :
        /\ i < Len(config.accounts)
        /\ config.accounts[i + 1].name = schedules[i].createdFor

\* C39: a scheduleConnect / scheduleDisconnect call that returns false leaves
\* the schedule records and their timer jobs as they were; one that returns
\* true leaves a record for the account with the given time and the given
\* days (every day when none were given).
C39_ScheduleAllOrNothing ==
    [][lastCall'.n # lastCall.n
         => IF ~lastCall'.ret
            THEN schedules' = schedules
            ELSE /\ lastCall'.accountIndex \in DOMAIN schedules'
                 /\ LET record == schedules'[lastCall'.accountIndex]
                    IN  /\ lastCall'.op = "scheduleConnect"
                              => record.connectTime = lastCall'.time
                        /\ lastCall'.op = "scheduleDisconnect"
                              => record.disconnectTime = lastCall'.time
                        /\ record.daysOfWeek =
                              IF lastCall'.daysOfWeek = NoDays
                              THEN AllDays
                              ELSE lastCall'.daysOfWeek]_vars

\* C35: no callback is invoked twice for the one occurrence of its schedule
\* on the day observed.
C35_AtMostOncePerOccurrence ==
    \A e \in BagToSet(fired) : CopiesIn(e, fired) <= 1

\* C37: with token encryption on, decryptToken applied once to an account's
\* stored token yields the credential that was typed in for it, however many
\* times reencryptTokens has run.
C37_ReencryptionPreservesCredential ==
    securityOptions.tokenEncryption
       => \A i \in DOMAIN config.accounts :
             decryptToken(config.accounts[i].token)
                = PlainToken(config.accounts[i].name)

====
